---- MODULE Spec2Model ----
(***************************************************************************)
(* Entity classification (core/computed/entity-classification.js) and the  *)
(* run-scoped computed-artifact cache it is requested through.             *)
(* Beside them, each followed on its own: the phase arithmetic of           *)
(* makePhaseTable, LinkText.audit, AnchorElements.getArtifact and the       *)
(* script that collects the trace fixtures.                                 *)
(*                                                                         *)
(* Strings that the code takes apart are modelled as sequences of their    *)
(* dot-separated segments: the host name sub.example.com is                *)
(* <<"sub", "example", "com">>, the origin chrome-extension://abc123 is    *)
(* <<"chrome-extension:", "abc123">>.  A URL string is the record of its   *)
(* components as the URL parser splits it; a string the parser rejects has *)
(* an empty protocol.                                                      *)
(*                                                                         *)
(* An object (an Entity) carries the field id, its address: two objects    *)
(* are the same instance iff their ids are equal.                          *)
(***************************************************************************)
EXTENDS Integers, Sequences, FiniteSets, TLC

\* ------------------------------------------------------------------ bounds
MaxLog == 3
MaxLogTwice == 2
MaxLiveCallers == 2
Precision == 3
MaxExponent == 1
MaxLinks == 2
MaxAnchors == 3
NumCallers == 3

\* ------------------------------------------------------------------ inputs
None == [absent |-> TRUE]

Url(protocol, hostname, rest) ==
  [protocol |-> protocol, hostname |-> hostname, rest |-> rest]

UrlSubA     == Url("https:", <<"sub", "example", "com">>, "/a")
UrlOtherB   == Url("https:", <<"other", "example", "com">>, "/b")
UrlCdn      == Url("https:", <<"cdn", "example", "com">>, "/c")
UrlExtJs    == Url("chrome-extension:", <<"abc123">>, "/script.js")
UrlExtCss   == Url("chrome-extension:", <<"abc123">>, "/style.css")
UrlData     == Url("data:", <<>>, "text/plain,hi")
UrlHttpx    == Url("httpx:", <<"x", "example", "com">>, "/h")
UrlGarbage  == Url("", <<>>, "not a url")
\* A host name without a scheme: the URL parser rejects it.
UrlBareCdn  == Url("", <<>>, "cdn.example.com")
UrlPage     == Url("https:", <<"example", "com">>, "/")
UrlPageOrg  == Url("https:", <<"www", "page", "org">>, "/")
UrlAbout    == Url("about:", <<>>, "blank")

\* URLs that occur in Network.requestWillBeSent entries of the log.
RecordUrls ==
  {UrlSubA, UrlOtherB, UrlCdn, UrlExtJs, UrlExtCss, UrlData, UrlHttpx, UrlGarbage,
   UrlBareCdn}

\* URLs of the page.
PageUrls == {UrlPage, UrlPageOrg, UrlAbout, UrlCdn}

Urls == RecordUrls \cup PageUrls

ExtOrigin == <<"chrome-extension:", "abc123">>
OtherExtOrigin == <<"chrome-extension:", "def456">>
WebOrigin == <<"https:", "example", "com">>

ContextCreated(origin, name) ==
  [method |-> "Runtime.executionContextCreated", origin |-> origin, name |-> name]

RequestWillBeSent(url) ==
  [method |-> "Network.requestWillBeSent", url |-> url]

LogEntries ==
  {ContextCreated(ExtOrigin, <<"My Ext">>),
   ContextCreated(ExtOrigin, <<"Other Name">>),
   ContextCreated(OtherExtOrigin, <<"Second Ext">>),
   ContextCreated(WebOrigin, <<"top">>)}
  \cup {RequestWillBeSent(u) : u \in RecordUrls}

RECURSIVE SeqsUpTo(_, _)
SeqsUpTo(S, n) ==
  IF n = 0 THEN {<<>>}
  ELSE LET shorter == SeqsUpTo(S, n - 1)
       IN  shorter \cup {Append(s, x) : s \in {t \in shorter : Len(t) = n - 1}, x \in S}

DevtoolsLogs == SeqsUpTo(LogEntries, MaxLog)

\* The URL artifact: mainDocumentUrl is optional, finalDisplayedUrl is not.
UrlArtifact(mainDocumentUrl, finalDisplayedUrl) ==
  [mainDocumentUrl |-> mainDocumentUrl, finalDisplayedUrl |-> finalDisplayedUrl]

UrlArtifacts ==
  {UrlArtifact(None, UrlPage), UrlArtifact(None, UrlPageOrg),
   UrlArtifact(UrlPage, UrlPageOrg), UrlArtifact(UrlAbout, UrlPage),
   UrlArtifact(UrlCdn, UrlPage)}

\* ------------------------------------------------------- known-entity reference
DatasetEntity(n, name, domains) ==
  [id |-> [heap |-> "dataset", n |-> n],
   name |-> name, company |-> name, category |-> "cdn", categories |-> <<"cdn">>,
   domains |-> domains, homepage |-> <<"https://cdn.example.com">>,
   averageExecutionTime |-> 0, totalExecutionTime |-> 0, totalOccurrences |-> 0]

ExampleCdn == DatasetEntity(1, <<"Example CDN">>, <<<<"cdn", "example", "com">>>>)

\* A reference that knows nothing, and one that knows one host of example.com,
\* given as a URL or as the bare host name.
RefNothing == [u \in Urls |-> None]
RefCdn == [u \in Urls |-> IF u \in {UrlCdn, UrlBareCdn} THEN ExampleCdn ELSE None]
Datasets == [nothing |-> RefNothing, cdn |-> RefCdn]
References == DOMAIN Datasets

\* ------------------------------------------------------------------ state
VARIABLES
  devtoolsLog,        \* data.devtoolsLog
  URL,                \* data.URL
  reference,          \* which dataset thirdPartyWeb.getEntity looks up
  pc,                 \* position of compute_
  networkRecords,     \* result of NetworkRecords.request
  j,                  \* preloadChromeExtensionsToCache_: index of the next log entry
  i,                  \* compute_: index of the next network record
  alloc,              \* number of Entity objects this call has constructed
  madeUpEntityCache,  \* Map<string, Entity>
  entityByUrl,        \* Map<string, Entity>
  urlsByEntity,       \* Map<Entity, Set<string>>
  firstParty,         \* Entity | undefined
  firstRun            \* the result an earlier call returned in another context

classVars ==
  <<devtoolsLog, URL, reference, pc, networkRecords, j, i, alloc,
    madeUpEntityCache, entityByUrl, urlsByEntity, firstParty, firstRun>>

\* The run's context and its consumers (see the computed artifacts below).
VARIABLES
  computedCache,  \* context.computedCache: key -> the promise stored under it
  promises,       \* key -> the promises compute_ has returned for it, in order
  callers,        \* the consumers of the run
  phaseTable      \* makePhaseTable's frame

cacheVars == <<computedCache, promises, callers, phaseTable>>

\* The audits, the gatherer and the script that are followed on their own.
VARIABLES
  phases,          \* makePhaseTable: the timings it is given and the phases it derives
  linkText,        \* LinkText.audit: the artifacts and the audit's product
  anchorElements,  \* AnchorElements.getArtifact's frame and the session it drives
  collect          \* the trace-fixture collection script and its browser and server

auditVars == <<phases, linkText, anchorElements, collect>>

vars == <<classVars, cacheVars, auditVars>>

\* ------------------------------------------------------------------ maps
EmptyMap == [k \in {} |-> None]

MapHas(m, k) == k \in DOMAIN m

MapGet(m, k) == IF k \in DOMAIN m THEN m[k] ELSE None

MapSet(m, k, v) == [x \in DOMAIN m \cup {k} |-> IF x = k THEN v ELSE m[x]]

\* ------------------------------------------------------------------ helpers
\* UrlUtils.isValid: the URL parser accepts the string.
IsValid(url) == url.protocol # ""

LastN(s, n) == IF Len(s) <= n THEN s ELSE SubSeq(s, Len(s) - n + 1, Len(s))

ListOfTlds == {"com", "co", "gov", "edu", "org", "net"}

\* Util.getTld: the number of labels of the public suffix of a host name.
TldLabels(hostname) ==
  IF Len(hostname) >= 2 /\ hostname[Len(hostname) - 1] \in ListOfTlds THEN 2 ELSE 1

\* Util.getRootDomain: public suffix plus one label; "" for an empty host name.
GetRootDomain(url) == LastN(url.hostname, TldLabels(url.hostname) + 1)

\* Util.getChromeExtensionOrigin: protocol + '//' + host.
GetChromeExtensionOrigin(url) == <<url.protocol>> \o url.hostname

StartsWithHttp(protocol) == protocol \in {"http:", "https:", "httpx:"}

\* thirdPartyWeb.getEntity
GetEntity(url) == Datasets[reference][url]

\* NetworkRecords: one record per request of the log, in log order.
RECURSIVE NetworkRecordsOf(_)
NetworkRecordsOf(log) ==
  IF log = <<>> THEN <<>>
  ELSE LET rest == NetworkRecordsOf(Tail(log))
       IN  IF Head(log).method = "Network.requestWillBeSent"
           THEN <<[url |-> Head(log).url]>> \o rest
           ELSE rest

\* ------------------------------------------------------------ makeUpAnEntity
\* The object literal with domains: [rootDomain] for extensions as well.
UnrecognizedEntityWithDomain(address, rootDomain, isChromeExtension) ==
  [id |-> [heap |-> "run", n |-> address],
   name |-> rootDomain,
   company |-> rootDomain,
   category |-> "",
   categories |-> <<>>,
   domains |-> <<rootDomain>>,
   averageExecutionTime |-> 0,
   totalExecutionTime |-> 0,
   totalOccurrences |-> 0,
   isUnrecognized |-> TRUE]

\* The object literal of makeUpAnEntity, constructed at a fresh address.
UnrecognizedEntity(address, rootDomain, isChromeExtension) ==
  [id |-> [heap |-> "run", n |-> address],
   name |-> rootDomain,
   company |-> rootDomain,
   category |-> "",
   categories |-> <<>>,
   domains |-> IF isChromeExtension THEN <<>> ELSE <<rootDomain>>,
   averageExecutionTime |-> 0,
   totalExecutionTime |-> 0,
   totalOccurrences |-> 0,
   isUnrecognized |-> TRUE]

\* The key makeUpAnEntity files a URL under.
RootDomainOf(url) ==
  IF url.protocol = "chrome-extension:"
  THEN GetChromeExtensionOrigin(url) ELSE GetRootDomain(url)

\* makeUpAnEntity for http and https URLs only.
MakeUpAnEntityWebOnly(entityCache, n, url) ==
  LET nothing == [entity |-> None, entityCache |-> entityCache, alloc |-> n]
      rootDomain == GetRootDomain(url)
      unrecognizedEntity == UnrecognizedEntity(n + 1, rootDomain, FALSE)
  IN  IF ~IsValid(url) THEN nothing
      ELSE IF ~StartsWithHttp(url.protocol) THEN nothing
      ELSE IF rootDomain = <<>> THEN nothing
      ELSE IF MapHas(entityCache, rootDomain)
           THEN [entity |-> MapGet(entityCache, rootDomain),
                 entityCache |-> entityCache, alloc |-> n]
      ELSE [entity |-> unrecognizedEntity,
            entityCache |-> MapSet(entityCache, rootDomain, unrecognizedEntity),
            alloc |-> n + 1]

\* makeUpAnEntity without the entityCache.has(rootDomain) lookup of line 32.
MakeUpAnEntityNoLookup(entityCache, n, url) ==
  LET nothing == [entity |-> None, entityCache |-> entityCache, alloc |-> n]
      isChromeExtension == url.protocol = "chrome-extension:"
      rootDomain == RootDomainOf(url)
      unrecognizedEntity == UnrecognizedEntity(n + 1, rootDomain, isChromeExtension)
  IN  IF ~IsValid(url) THEN nothing
      ELSE IF ~isChromeExtension /\ ~StartsWithHttp(url.protocol) THEN nothing
      ELSE IF rootDomain = <<>> THEN nothing
      ELSE [entity |-> unrecognizedEntity,
            entityCache |-> MapSet(entityCache, rootDomain, unrecognizedEntity),
            alloc |-> n + 1]

\* makeUpAnEntity(entityCache, url) with n objects constructed so far: the value
\* returned, the cache and the number of objects afterwards.
MakeUpAnEntity(entityCache, n, url) ==
  LET nothing == [entity |-> None, entityCache |-> entityCache, alloc |-> n]
      isChromeExtension == url.protocol = "chrome-extension:"
      rootDomain == RootDomainOf(url)
      unrecognizedEntity == UnrecognizedEntity(n + 1, rootDomain, isChromeExtension)
  IN  IF ~IsValid(url) THEN nothing
      ELSE IF ~isChromeExtension /\ ~StartsWithHttp(url.protocol) THEN nothing
      ELSE IF rootDomain = <<>> THEN nothing
      ELSE IF MapHas(entityCache, rootDomain)
           THEN [entity |-> MapGet(entityCache, rootDomain),
                 entityCache |-> entityCache, alloc |-> n]
      ELSE [entity |-> unrecognizedEntity,
            entityCache |-> MapSet(entityCache, rootDomain, unrecognizedEntity),
            alloc |-> n + 1]

\* thirdPartyWeb.getEntity(url) || makeUpAnEntity(madeUpEntityCache, url)
Classify(entityCache, n, url) ==
  IF GetEntity(url) # None
  THEN [entity |-> GetEntity(url), entityCache |-> entityCache, alloc |-> n]
  ELSE MakeUpAnEntity(entityCache, n, url)

\* ------------------------------------------- preloadChromeExtensionsToCache_
\* The preload's object literal with isUnrecognized set, as makeUpAnEntity's has.
ChromeExtensionEntityUnrecognized(address, origin, name) ==
  [id |-> [heap |-> "run", n |-> address],
   name |-> name,
   company |-> name,
   category |-> "Chrome Extension",
   homepage |-> <<"https://chromewebstore.google.com/detail/">> \o Tail(origin),
   categories |-> <<>>,
   domains |-> <<>>,
   averageExecutionTime |-> 0,
   totalExecutionTime |-> 0,
   totalOccurrences |-> 0,
   isUnrecognized |-> TRUE]

\* The object literal of lines 64-74, constructed at a fresh address.
ChromeExtensionEntity(address, origin, name) ==
  [id |-> [heap |-> "run", n |-> address],
   name |-> name,
   company |-> name,
   category |-> "Chrome Extension",
   homepage |-> <<"https://chromewebstore.google.com/detail/">> \o Tail(origin),
   categories |-> <<>>,
   domains |-> <<>>,
   averageExecutionTime |-> 0,
   totalExecutionTime |-> 0,
   totalOccurrences |-> 0]

\* The preload filing the entity under the origin's host instead of the origin.
PreloadEntryByHost(entityCache, n, entry) ==
  LET skip == [entityCache |-> entityCache, alloc |-> n]
  IN  IF entry.method # "Runtime.executionContextCreated" THEN skip
      ELSE IF Head(entry.origin) # "chrome-extension:" THEN skip
      ELSE IF MapHas(entityCache, Tail(entry.origin)) THEN skip
      ELSE [entityCache |->
              MapSet(entityCache, Tail(entry.origin),
                     ChromeExtensionEntity(n + 1, entry.origin, entry.name)),
            alloc |-> n + 1]

\* The preload without the origin.startsWith('chrome-extension:') test of line 59.
PreloadEntryAnyOrigin(entityCache, n, entry) ==
  LET skip == [entityCache |-> entityCache, alloc |-> n]
  IN  IF entry.method # "Runtime.executionContextCreated" THEN skip
      ELSE IF MapHas(entityCache, entry.origin) THEN skip
      ELSE [entityCache |->
              MapSet(entityCache, entry.origin,
                     ChromeExtensionEntity(n + 1, entry.origin, entry.name)),
            alloc |-> n + 1]

\* The preload without the entityCache.has(origin) test of line 60.
PreloadEntryOverwrite(entityCache, n, entry) ==
  LET skip == [entityCache |-> entityCache, alloc |-> n]
  IN  IF entry.method # "Runtime.executionContextCreated" THEN skip
      ELSE IF Head(entry.origin) # "chrome-extension:" THEN skip
      ELSE [entityCache |->
              MapSet(entityCache, entry.origin,
                     ChromeExtensionEntity(n + 1, entry.origin, entry.name)),
            alloc |-> n + 1]

\* One iteration of the loop over devtoolsLog.values().
PreloadEntry(entityCache, n, entry) ==
  LET skip == [entityCache |-> entityCache, alloc |-> n]
  IN  IF entry.method # "Runtime.executionContextCreated" THEN skip
      ELSE IF Head(entry.origin) # "chrome-extension:" THEN skip
      ELSE IF MapHas(entityCache, entry.origin) THEN skip
      ELSE [entityCache |->
              MapSet(entityCache, entry.origin,
                     ChromeExtensionEntity(n + 1, entry.origin, entry.name)),
            alloc |-> n + 1]

\* ------------------------------------------------------------------ compute_
ClassInit ==
  /\ devtoolsLog \in DevtoolsLogs
  /\ URL \in UrlArtifacts
  /\ reference \in References
  /\ pc = "request"
  /\ networkRecords = <<>>
  /\ j = 1
  /\ i = 1
  /\ alloc = 0
  /\ madeUpEntityCache = EmptyMap
  /\ entityByUrl = EmptyMap
  /\ urlsByEntity = EmptyMap
  /\ firstParty = None
  /\ firstRun = None

AfterPreload(log, next) == IF next > Len(log) THEN "classify" ELSE "preload"

\* await NetworkRecords.request(data.devtoolsLog, context) returns the records.
NetworkRecordsResolve ==
  /\ pc = "request"
  /\ networkRecords' = NetworkRecordsOf(devtoolsLog)
  /\ pc' = AfterPreload(devtoolsLog, j)
  /\ UNCHANGED <<devtoolsLog, URL, reference, j, i, alloc, madeUpEntityCache,
                 entityByUrl, urlsByEntity, firstParty, firstRun>>
  /\ UNCHANGED <<cacheVars, auditVars>>

\* await NetworkRecords.request(data.devtoolsLog, context) throws.
NetworkRecordsReject ==
  /\ pc = "request"
  /\ pc' = "rejected"
  /\ UNCHANGED <<devtoolsLog, URL, reference, networkRecords, j, i, alloc,
                 madeUpEntityCache, entityByUrl, urlsByEntity, firstParty, firstRun>>
  /\ UNCHANGED <<cacheVars, auditVars>>

PreloadChromeExtension ==
  /\ pc = "preload"
  /\ j <= Len(devtoolsLog)
  /\ LET r == PreloadEntry(madeUpEntityCache, alloc, devtoolsLog[j])
     IN  /\ madeUpEntityCache' = r.entityCache
         /\ alloc' = r.alloc
  /\ j' = j + 1
  /\ pc' = AfterPreload(devtoolsLog, j + 1)
  /\ UNCHANGED <<devtoolsLog, URL, reference, networkRecords, i,
                 entityByUrl, urlsByEntity, firstParty, firstRun>>
  /\ UNCHANGED <<cacheVars, auditVars>>

\* Lines 102-104 with a new Set for every URL.
AddUrlNewSet(byEntity, entity, url) == MapSet(byEntity, entity, {url})

\* Lines 102-104: the entity's set, created when the entity has none.
AddUrl(byEntity, entity, url) ==
  LET entityURLs == IF MapHas(byEntity, entity) THEN byEntity[entity] ELSE {}
  IN  MapSet(byEntity, entity, entityURLs \cup {url})

\* The loop body without the entityByUrl.has(url) test of line 96 and with a
\* new Set for every record: the last record of a URL decides.
ClassifyRecordLastWins ==
  /\ pc = "classify"
  /\ i <= Len(networkRecords)
  /\ LET url == networkRecords[i].url
         r == Classify(madeUpEntityCache, alloc, url)
     IN  /\ madeUpEntityCache' = r.entityCache
         /\ alloc' = r.alloc
         /\ IF r.entity = None
            THEN UNCHANGED <<entityByUrl, urlsByEntity>>
            ELSE /\ urlsByEntity' = AddUrlNewSet(urlsByEntity, r.entity, url)
                 /\ entityByUrl' = MapSet(entityByUrl, url, r.entity)
  /\ i' = i + 1
  /\ UNCHANGED <<devtoolsLog, URL, reference, pc, networkRecords, j, firstParty,
                 firstRun>>
  /\ UNCHANGED <<cacheVars, auditVars>>

\* One iteration of the loop over networkRecords.
ClassifyRecord ==
  /\ pc = "classify"
  /\ i <= Len(networkRecords)
  /\ LET url == networkRecords[i].url
         r == Classify(madeUpEntityCache, alloc, url)
     IN  IF MapHas(entityByUrl, url)
         THEN UNCHANGED <<alloc, madeUpEntityCache, entityByUrl, urlsByEntity>>
         ELSE /\ madeUpEntityCache' = r.entityCache
              /\ alloc' = r.alloc
              /\ IF r.entity = None
                 THEN UNCHANGED <<entityByUrl, urlsByEntity>>
                 ELSE /\ urlsByEntity' = AddUrl(urlsByEntity, r.entity, url)
                      /\ entityByUrl' = MapSet(entityByUrl, url, r.entity)
  /\ i' = i + 1
  /\ UNCHANGED <<devtoolsLog, URL, reference, pc, networkRecords, j, firstParty,
                 firstRun>>
  /\ UNCHANGED <<cacheVars, auditVars>>

\* The first-party URL taken from finalDisplayedUrl alone.
FirstPartyUrlFinalOnly(urlArtifact) == urlArtifact.finalDisplayedUrl

\* data.URL.mainDocumentUrl || data.URL.finalDisplayedUrl
FirstPartyUrl(urlArtifact) ==
  IF urlArtifact.mainDocumentUrl # None
  THEN urlArtifact.mainDocumentUrl ELSE urlArtifact.finalDisplayedUrl

\* The first-party resolution with a makeUpAnEntity that does not look the key
\* up in the cache.
ResolveFirstPartyFresh ==
  /\ pc = "classify"
  /\ i > Len(networkRecords)
  /\ LET url == FirstPartyUrl(URL)
         r == IF GetEntity(url) # None
              THEN [entity |-> GetEntity(url), entityCache |-> madeUpEntityCache,
                    alloc |-> alloc]
              ELSE MakeUpAnEntityNoLookup(madeUpEntityCache, alloc, url)
     IN  /\ firstParty' = r.entity
         /\ madeUpEntityCache' = r.entityCache
         /\ alloc' = r.alloc
  /\ pc' = "done"
  /\ UNCHANGED <<devtoolsLog, URL, reference, networkRecords, j, i,
                 entityByUrl, urlsByEntity, firstRun>>
  /\ UNCHANGED <<cacheVars, auditVars>>

\* Lines 111-130, after the last record.
ResolveFirstParty ==
  /\ pc = "classify"
  /\ i > Len(networkRecords)
  /\ LET r == Classify(madeUpEntityCache, alloc, FirstPartyUrl(URL))
     IN  /\ firstParty' = r.entity
         /\ madeUpEntityCache' = r.entityCache
         /\ alloc' = r.alloc
  /\ pc' = "done"
  /\ UNCHANGED <<devtoolsLog, URL, reference, networkRecords, j, i,
                 entityByUrl, urlsByEntity, firstRun>>
  /\ UNCHANGED <<cacheVars, auditVars>>

\* isFirstParty(url) of the returned result.
isFirstParty(url) == MapGet(entityByUrl, url) = firstParty

\* The object compute_ returns (lines 125-130).
Result ==
  [entityByUrl |-> entityByUrl, urlsByEntity |-> urlsByEntity,
   firstParty |-> firstParty]

\* A second call with the same data in another context that leaves urlsByEntity
\* as the first call filled it.
CallAgainSharedIndex ==
  /\ pc = "done"
  /\ firstRun = None
  /\ firstRun' = Result
  /\ pc' = "request"
  /\ networkRecords' = <<>>
  /\ j' = 1
  /\ i' = 1
  /\ madeUpEntityCache' = EmptyMap
  /\ entityByUrl' = EmptyMap
  /\ firstParty' = None
  /\ UNCHANGED <<devtoolsLog, URL, reference, alloc, urlsByEntity>>
  /\ UNCHANGED <<cacheVars, auditVars>>

\* compute_ is called again with the same data in another context: the first
\* call's result is kept by its caller, and the new call has Maps of its own
\* (lines 86-90). The objects it constructs are new ones.
CallAgain ==
  /\ pc = "done"
  /\ firstRun = None
  /\ firstRun' = Result
  /\ pc' = "request"
  /\ networkRecords' = <<>>
  /\ j' = 1
  /\ i' = 1
  /\ madeUpEntityCache' = EmptyMap
  /\ entityByUrl' = EmptyMap
  /\ urlsByEntity' = EmptyMap
  /\ firstParty' = None
  /\ UNCHANGED <<devtoolsLog, URL, reference, alloc>>
  /\ UNCHANGED <<cacheVars, auditVars>>


\* ======================================================= computed artifacts
\* The run's context and the computed-artifact wrapper (computed-artifact.js),
\* with the consumers of one run: callers that request one artifact each, and
\* LargestContentfulPaintElement.makePhaseTable.

Artifacts ==
  {"NetworkRecords", "EntityClassification", "LargestContentfulPaint", "LCPBreakdown"}

\* The artifacts of a run as an audit passes them on.
Data(url, log, trace) ==
  [URL |-> url, devtoolsLog |-> log, trace |-> trace,
   gatherContext |-> "navigation", settings |-> "default"]

DataSet ==
  {Data("urlA", "logA", "traceA"), Data("urlB", "logA", "traceA"),
   Data("urlA", "logA", "traceB"), Data("urlA", "logB", "traceA")}

\* The artifacts makePhaseTable is called with.
RunArtifacts == Data("urlA", "logA", "traceA")

\* The runs whose traces differ.
TraceDataSet == {Data("urlA", "logA", "traceA"), Data("urlA", "logA", "traceB")}

\* const metricComputationData = {trace, devtoolsLog, gatherContext, settings, URL}
MetricComputationData(artifacts) ==
  [trace |-> artifacts.trace, devtoolsLog |-> artifacts.devtoolsLog,
   gatherContext |-> artifacts.gatherContext, settings |-> artifacts.settings,
   URL |-> artifacts.URL]

\* makeComputedArtifact(EntityClassification, ['URL', 'devtoolsLog'])
EntityClassificationKeys == {"URL", "devtoolsLog"}

\* The dependency names each artifact declares.
DeclaredKeys(artifact) ==
  CASE artifact = "EntityClassification" -> EntityClassificationKeys
    [] artifact = "NetworkRecords" -> {"devtoolsLog"}
    [] OTHER -> {"trace", "devtoolsLog", "gatherContext", "settings", "URL"}

\* pick(dependencies, keys)
Pick(dependencies, keys) ==
  [k \in keys \cap DOMAIN dependencies |-> dependencies[k]]

\* A cache key without the artifact's identity.
CacheKeyInputsOnly(artifact, dependencies) ==
  [artifact |-> "", dependencies |-> Pick(dependencies, DeclaredKeys(artifact))]

\* Cache key = (artifact identity, structural fingerprint of the inputs).
CacheKey(artifact, dependencies) ==
  [artifact |-> artifact, dependencies |-> Pick(dependencies, DeclaredKeys(artifact))]

\* A promise is named by the key it was created for and its number among the
\* invocations of compute_ for that key; promises[key] lists those invocations.
PromiseRef(key, n) == [key |-> key, n |-> n]

Invocations(proms, key) == IF MapHas(proms, key) THEN proms[key] ELSE <<>>

Promise(ref) == promises[ref.key][ref.n]

\* The promise an invocation of compute_ returns; awaiting is the promise the
\* producer is suspended on, if any.
Pending(artifact, dependencies, awaiting) ==
  [artifact |-> artifact, dependencies |-> dependencies, state |-> "pending",
   value |-> None, awaiting |-> awaiting]

Settled(ref) == Promise(ref).state # "pending"

\* What an await of the promise yields.
Outcome(ref) == [state |-> Promise(ref).state, value |-> Promise(ref).value]

\* The object a producer returns: a new one at every invocation.
ResultOf(ref) ==
  [artifact |-> Promise(ref).artifact, dependencies |-> Promise(ref).dependencies,
   invocation |-> ref.n]

\* The error a producer throws.
ErrorOf(ref) ==
  [error |-> Promise(ref).artifact, dependencies |-> Promise(ref).dependencies,
   invocation |-> ref.n]

\* computableArtifact.compute_(...) is called and its promise stored under key.
Compute(cache, proms, key, promise) ==
  LET ref == PromiseRef(key, Len(Invocations(proms, key)) + 1)
  IN  [cache |-> MapSet(cache, key, ref),
       promises |-> MapSet(proms, key, Append(Invocations(proms, key), promise)),
       promise |-> ref, hit |-> FALSE]

\* request() that computes without consulting the cache.
RequestLeafNoLookup(cache, proms, artifact, dependencies) ==
  LET key == CacheKey(artifact, dependencies)
  IN  Compute(cache, proms, key, Pending(artifact, key.dependencies, None))

\* request() that treats a rejected entry as a miss and computes again.
RequestLeafRetryRejected(cache, proms, artifact, dependencies) ==
  LET key == CacheKey(artifact, dependencies)
  IN  IF MapHas(cache, key) /\ proms[cache[key].key][cache[key].n].state # "rejected"
      THEN [cache |-> cache, promises |-> proms, promise |-> cache[key], hit |-> TRUE]
      ELSE Compute(cache, proms, key, Pending(artifact, key.dependencies, None))

\* request() of an artifact whose producer requests nothing of the cache: the
\* cache and the promises afterwards, and the promise returned to the caller.
RequestLeaf(cache, proms, artifact, dependencies) ==
  LET key == CacheKey(artifact, dependencies)
  IN  IF MapHas(cache, key)
      THEN [cache |-> cache, promises |-> proms, promise |-> cache[key], hit |-> TRUE]
      ELSE Compute(cache, proms, key, Pending(artifact, key.dependencies, None))

\* compute_ calling the NetworkRecords producer itself, past the cache.
ComputeEntityClassificationDirect(cache, proms, data) ==
  RequestLeafNoLookup(cache, proms, "NetworkRecords", [devtoolsLog |-> data.devtoolsLog])

\* compute_ of EntityClassification up to its await (lines 83-84).
ComputeEntityClassification(cache, proms, data) ==
  RequestLeaf(cache, proms, "NetworkRecords", [devtoolsLog |-> data.devtoolsLog])

\* EntityClassification.request(dependencies, context)
RequestEntityClassification(cache, proms, dependencies) ==
  LET key == CacheKey("EntityClassification", dependencies)
      started == ComputeEntityClassification(cache, proms, key.dependencies)
  IN  IF MapHas(cache, key)
      THEN [cache |-> cache, promises |-> proms, promise |-> cache[key], hit |-> TRUE]
      ELSE Compute(started.cache, started.promises, key,
                   Pending("EntityClassification", key.dependencies, started.promise))

\* <artifact>.request(dependencies, context)
Request(cache, proms, artifact, dependencies) ==
  IF artifact = "EntityClassification"
  THEN RequestEntityClassification(cache, proms, dependencies)
  ELSE RequestLeaf(cache, proms, artifact, dependencies)

Callers == 1..NumCallers

Idle == [pc |-> "idle"]

CacheInit ==
  /\ computedCache = EmptyMap
  /\ promises = EmptyMap
  /\ callers = [c \in Callers |-> Idle]
  /\ phaseTable = [pc |-> "start"]

\* What a consumer passes to request(): NetworkRecords takes the log itself.
DependenciesFor(artifact, data) ==
  IF artifact = "NetworkRecords" THEN [devtoolsLog |-> data.devtoolsLog] ELSE data

\* How a request found its cache entry.
Joined(r) ==
  IF ~r.hit THEN "started"
  ELSE IF Promise(r.promise).state = "pending" THEN "pending" ELSE "settled"

\* A consumer calls <artifact>.request(dependencies, context) and awaits it.
\* Callers are numbered in the order of their requests.
CallerRequest(c, artifact, data) ==
  /\ callers[c].pc = "idle"
  /\ c > 1 => callers[c - 1].pc # "idle"
  /\ LET dependencies == DependenciesFor(artifact, data)
         r == Request(computedCache, promises, artifact, dependencies)
     IN  /\ computedCache' = r.cache
         /\ promises' = r.promises
         /\ callers' = [callers EXCEPT ![c] =
                          [pc |-> "awaiting", artifact |-> artifact,
                           dependencies |-> dependencies, promise |-> r.promise,
                           joined |-> Joined(r)]]
  /\ UNCHANGED phaseTable
  /\ UNCHANGED <<classVars, auditVars>>

\* The awaited promise has settled: the caller receives its value or its error.
CallerResume(c) ==
  /\ callers[c].pc = "awaiting"
  /\ Settled(callers[c].promise)
  /\ callers' = [callers EXCEPT ![c] =
                   [pc |-> "done", artifact |-> callers[c].artifact,
                    dependencies |-> callers[c].dependencies,
                    promise |-> callers[c].promise, joined |-> callers[c].joined,
                    outcome |-> Outcome(callers[c].promise)]]
  /\ UNCHANGED <<computedCache, promises, phaseTable>>
  /\ UNCHANGED <<classVars, auditVars>>

\* A consumer stops waiting for its request (its own await is given up, as by a
\* race against a timeout): nothing of the cache or of the promise is touched.
CallerAbandon(c) ==
  /\ callers[c].pc = "awaiting"
  /\ callers' = [callers EXCEPT ![c] =
                   [pc |-> "abandoned", artifact |-> callers[c].artifact,
                    dependencies |-> callers[c].dependencies,
                    promise |-> callers[c].promise, joined |-> callers[c].joined]]
  /\ UNCHANGED <<computedCache, promises, phaseTable>>
  /\ UNCHANGED <<classVars, auditVars>>

Resolve(ref, state, value) ==
  [promises EXCEPT ![ref.key][ref.n] = [@ EXCEPT !.state = state, !.value = value]]

PromiseRefs == {PromiseRef(k, n) : k \in DOMAIN promises, n \in 1..NumCallers + 2}

LivePromises == {ref \in PromiseRefs : ref.n <= Len(promises[ref.key])}

\* A producer that awaits nothing of this cache returns.
ProducerReturns(ref) ==
  /\ Promise(ref).state = "pending"
  /\ Promise(ref).awaiting = None
  /\ promises' = Resolve(ref, "fulfilled", ResultOf(ref))
  /\ UNCHANGED <<computedCache, callers, phaseTable>>
  /\ UNCHANGED <<classVars, auditVars>>

\* A producer that awaits nothing of this cache throws.
ProducerThrows(ref) ==
  /\ Promise(ref).state = "pending"
  /\ Promise(ref).awaiting = None
  /\ promises' = Resolve(ref, "rejected", ErrorOf(ref))
  /\ UNCHANGED <<computedCache, callers, phaseTable>>
  /\ UNCHANGED <<classVars, auditVars>>

\* compute_ swallowing the rejection and classifying no records.
AfterNetworkRecordsCaught(ref) == Resolve(ref, "fulfilled", ResultOf(ref))

\* compute_ that never comes back from a rejected await.
AfterNetworkRecordsHangs(ref) ==
  LET records == Promise(ref).awaiting
  IN  IF Promise(records).state = "fulfilled"
      THEN Resolve(ref, "fulfilled", ResultOf(ref))
      ELSE promises

\* compute_ of EntityClassification from its await on (lines 84-131): with the
\* records it classifies and returns its result; a rejection of the await is
\* thrown on as it is.
AfterNetworkRecords(ref) ==
  LET records == Promise(ref).awaiting
  IN  IF Promise(records).state = "fulfilled"
      THEN Resolve(ref, "fulfilled", ResultOf(ref))
      ELSE Resolve(ref, "rejected", Promise(records).value)

EntityClassificationResume(ref) ==
  /\ Promise(ref).state = "pending"
  /\ Promise(ref).awaiting # None
  /\ Settled(Promise(ref).awaiting)
  /\ promises' = AfterNetworkRecords(ref)
  /\ UNCHANGED <<computedCache, callers, phaseTable>>
  /\ UNCHANGED <<classVars, auditVars>>

\* ------------------------------------------------------------ makePhaseTable
\* Lines 58-65: up to the await of LargestContentfulPaint.request.
PhaseTableRequestLcp(artifacts) ==
  /\ phaseTable.pc = "start"
  /\ LET metricComputationData == MetricComputationData(artifacts)
         r == Request(computedCache, promises, "LargestContentfulPaint",
                      metricComputationData)
     IN  /\ computedCache' = r.cache
         /\ promises' = r.promises
         /\ phaseTable' = [pc |-> "awaitLcp",
                           metricComputationData |-> metricComputationData,
                           awaited |-> r.promise]
  /\ UNCHANGED callers
  /\ UNCHANGED <<classVars, auditVars>>

\* Lines 64-66: LargestContentfulPaint has settled; on a value, request LCPBreakdown.
PhaseTableRequestBreakdown ==
  /\ phaseTable.pc = "awaitLcp"
  /\ Settled(phaseTable.awaited)
  /\ IF Promise(phaseTable.awaited).state = "rejected"
     THEN /\ phaseTable' = [pc |-> "thrown",
                            metricComputationData |-> phaseTable.metricComputationData,
                            error |-> Promise(phaseTable.awaited).value]
          /\ UNCHANGED <<computedCache, promises>>
     ELSE LET r == Request(computedCache, promises, "LCPBreakdown",
                           phaseTable.metricComputationData)
          IN  /\ computedCache' = r.cache
              /\ promises' = r.promises
              /\ phaseTable' = [pc |-> "awaitBreakdown",
                                metricComputationData |-> phaseTable.metricComputationData,
                                metricLcp |-> Promise(phaseTable.awaited).value,
                                awaited |-> r.promise]
  /\ UNCHANGED callers
  /\ UNCHANGED <<classVars, auditVars>>

\* Lines 66-96: LCPBreakdown has settled.
PhaseTableReturn ==
  /\ phaseTable.pc = "awaitBreakdown"
  /\ Settled(phaseTable.awaited)
  /\ phaseTable' =
       IF Promise(phaseTable.awaited).state = "rejected"
       THEN [pc |-> "thrown",
             metricComputationData |-> phaseTable.metricComputationData,
             error |-> Promise(phaseTable.awaited).value]
       ELSE [pc |-> "done",
             metricComputationData |-> phaseTable.metricComputationData,
             metricLcp |-> phaseTable.metricLcp,
             breakdown |-> Promise(phaseTable.awaited).value]
  /\ UNCHANGED <<computedCache, promises, callers>>
  /\ UNCHANGED <<classVars, auditVars>>

\* The classification state of a run in which compute_ is not followed.
ClassIdle ==
  /\ devtoolsLog = <<>>
  /\ URL = [mainDocumentUrl |-> None, finalDisplayedUrl |-> UrlPage]
  /\ reference = "nothing"
  /\ pc = "request"
  /\ networkRecords = <<>>
  /\ j = 1
  /\ i = 1
  /\ alloc = 0
  /\ madeUpEntityCache = EmptyMap
  /\ entityByUrl = EmptyMap
  /\ urlsByEntity = EmptyMap
  /\ firstParty = None
  /\ firstRun = None

\* ==================================================== makePhaseTable's phases
\* LargestContentfulPaintElement.makePhaseTable, lines 68-87, on the timings its
\* two awaits gave it.
\*
\* Timings are JavaScript numbers, binary floating-point values: the results of
\* the subtractions are rounded to the nearest representable value, ties to the
\* even significand. The model keeps the format and scales it down: a
\* significand of Precision bits (53 in the code) and the exponents
\* 0..MaxExponent, so that a value is an integer m * 2^e with m < 2^Precision.
Abs(x) == IF x < 0 THEN 0 - x ELSE x

\* The exponent of the binade a magnitude lies in.
Exponent(a) ==
  CHOOSE e \in 0..(MaxExponent + 1) :
    /\ a < 2^(Precision + e)
    /\ e = 0 \/ a >= 2^(Precision + e - 1)

\* The distance between neighbouring values at x.
Ulp(x) == 2^Exponent(Abs(x))

\* Round to nearest, ties to even.
Round(x) ==
  LET a == Abs(x)
      u == Ulp(x)
      q == a \div u
      r == a % u
      up == 2 * r > u \/ (2 * r = u /\ q % 2 = 1)
      m == (IF up THEN q + 1 ELSE q) * u
  IN  IF x < 0 THEN 0 - m ELSE m

\* a - b as the code computes it.
FSub(a, b) == Round(a - b)

\* The timings the computed artifacts deliver.
Timings == {m * 2^e : m \in 0..(2^Precision - 1), e \in 0..MaxExponent}

\* An optional timing is None (undefined) or holds its number.
OptionalTimings == {[value |-> n] : n \in Timings} \cup {None}

\* `loadStart && loadEnd` (line 72): an absent and a zero timing are falsy.
Truthy(x) == x # None /\ x.value # 0

\* The branch that leaves renderDelay as line 70 set it.
PhaseTimingsRenderFromTtfb(metricLcp, ttfb, loadStart, loadEnd) ==
  IF Truthy(loadStart) /\ Truthy(loadEnd)
  THEN [ttfb |-> ttfb, loadDelay |-> FSub(loadStart.value, ttfb),
        loadTime |-> FSub(loadEnd.value, loadStart.value), renderDelay |-> FSub(metricLcp, ttfb)]
  ELSE [ttfb |-> ttfb, loadDelay |-> 0, loadTime |-> 0,
        renderDelay |-> FSub(metricLcp, ttfb)]

\* Lines 68-76: the timing of each of the four phases.
PhaseTimings(metricLcp, ttfb, loadStart, loadEnd) ==
  IF Truthy(loadStart) /\ Truthy(loadEnd)
  THEN [ttfb |-> ttfb, loadDelay |-> FSub(loadStart.value, ttfb),
        loadTime |-> FSub(loadEnd.value, loadStart.value), renderDelay |-> FSub(metricLcp, loadEnd.value)]
  ELSE [ttfb |-> ttfb, loadDelay |-> 0, loadTime |-> 0,
        renderDelay |-> FSub(metricLcp, ttfb)]

\* Lines 68-87.
MakePhaseTable ==
  /\ phases.pc = "start"
  /\ phases' = [pc |-> "done", metricLcp |-> phases.metricLcp, ttfb |-> phases.ttfb,
                loadStart |-> phases.loadStart, loadEnd |-> phases.loadEnd,
                timings |-> PhaseTimings(phases.metricLcp, phases.ttfb,
                                         phases.loadStart, phases.loadEnd)]
  /\ UNCHANGED <<linkText, anchorElements, collect>>
  /\ UNCHANGED <<classVars, cacheVars>>

\* ========================================================= LinkText.audit
\* core/audits/seo/link-text.js. A language code is the sequence of its
\* hyphen-delimited segments, "en-US" is <<"en", "US">> and "" is <<"">>. A link
\* text is a word, maybe in upper case, maybe with white space around it.

\* nonDescriptiveLinkTexts (lines 11-99): an object literal of Sets. The entries
\* written in other scripts (all of 'ja' and 'ko', the accented ones elsewhere)
\* are left out; no link text below is one of them.
nonDescriptiveLinkTexts ==
  [en |-> {"click here", "click this", "go", "here", "information", "learn more",
           "more", "more info", "more information", "right here", "read more",
           "see more", "start", "this"},
   ja |-> {},
   es |-> {"click aqui", "clicka aqui", "pincha aqui", "aqui", "mas",
           "mas informacion", "este", "enlace", "este enlace", "empezar"},
   pt |-> {"clique aqui", "ir", "mais", "veja mais"},
   ko |-> {},
   sv |-> {"mer", "mer info", "mer information"},
   de |-> {"klicke hier", "hier klicken", "hier", "mehr", "siehe", "dies", "das"}]

\* What every object literal inherits from Object.prototype.
ObjectPrototypeKeys ==
  {"constructor", "toString", "toLocaleString", "valueOf", "hasOwnProperty",
   "isPrototypeOf", "propertyIsEnumerable", "__proto__", "__defineGetter__",
   "__defineSetter__", "__lookupGetter__", "__lookupSetter__"}

\* nonDescriptiveLinkTexts[lang]: the Set under an own key, the inherited
\* member under an inherited one, undefined otherwise. No key holds a hyphen.
Lookup(lang) ==
  IF Len(lang) = 1 /\ lang[1] \in DOMAIN nonDescriptiveLinkTexts
  THEN [set |-> nonDescriptiveLinkTexts[lang[1]]]
  ELSE IF Len(lang) = 1 /\ lang[1] \in ObjectPrototypeKeys
       THEN [inherited |-> lang[1]]
       ELSE None

\* lang.substring(0, lang.lastIndexOf('-')): without a hyphen lastIndexOf is
\* -1 and substring(0, -1) is "".
Substring(lang) ==
  IF Len(lang) = 1 THEN <<"">> ELSE SubSeq(lang, 1, Len(lang) - 1)

\* while (lang): the empty string is falsy.
LangTruthy(lang) == lang # <<"">>

Text(word, upper, padded) == [word |-> word, upper |-> upper, padded |-> padded]

\* text.trim()
Trim(text) == Text(text.word, text.upper, FALSE)

\* text.toLowerCase()
ToLowerCase(text) == Text(text.word, FALSE, text.padded)

\* The string has characters: white space alone is a string, "" is not.
NonEmpty(text) == text.word # "" \/ text.padded

\* An href: scheme (maybe in upper case), what follows it, and the fragment.
Href(scheme, upper, rest, fragment) ==
  [scheme |-> scheme, upper |-> upper, rest |-> rest, fragment |-> fragment]

EmptyHref == Href("", FALSE, "", "")

HrefToLowerCase(href) == Href(href.scheme, FALSE, href.rest, href.fragment)

\* href.startsWith(prefix), prefix in lower case
StartsWith(href, prefix) == ~href.upper /\ href.scheme = prefix

\* UrlUtils.equalWithExcludedFragments(url1, url2): both parse and are equal
\* once their fragments are removed; the parser lower-cases the scheme.
EqualWithExcludedFragments(url1, url2) ==
  /\ url1.scheme \in {"https:", "http:", "javascript:", "mailto:"}
  /\ url1.scheme = url2.scheme
  /\ url1.rest = url2.rest

Link(href, rel, text, textLang) ==
  [href |-> href, rel |-> rel, text |-> text, textLang |-> textLang]

\* link.href && !link.rel.includes('nofollow') (line 138); rel is the set of
\* its tokens.
Followed(link) == link.href # EmptyHref /\ "nofollow" \notin link.rel

\* Lines 140-150: the hrefs the second filter lets go.
Excluded(link, finalDisplayedUrl) ==
  LET href == HrefToLowerCase(link.href)
  IN  \/ StartsWith(href, "javascript:")
      \/ StartsWith(href, "mailto:")
      \/ EqualWithExcludedFragments(link.href, finalDisplayedUrl)

\* const searchTerm = link.text.trim().toLowerCase()
SearchTerm(link) == ToLowerCase(Trim(link.text))

\* ----------------------------------------------------------------- inputs
Hrefs ==
  {Href("https:", FALSE, "//other.example.org/docs", ""),
   Href("https:", FALSE, "//www.example.com/", "top"),
   Href("javascript:", TRUE, "void(0)", ""),
   Href("mailto:", FALSE, "a@example.com", ""),
   EmptyHref}

Texts ==
  {Text("here", TRUE, TRUE), Text("este", FALSE, FALSE),
   Text("docs", FALSE, FALSE), Text("", FALSE, TRUE)}

Langs ==
  {<<"en", "US">>, <<"zh", "cmn", "Hans", "CN">>, <<"es">>, <<"EN">>, <<"">>,
   <<"constructor">>, <<"valueOf", "x">>, <<"es", "en">>}

\* The anchors of a page: each href, a nofollow link, and each text under each
\* language code.
Links ==
  LET other == Href("https:", FALSE, "//other.example.org/docs", "")
  IN  {Link(href, {}, Text("here", TRUE, TRUE), <<"en", "US">>) : href \in Hrefs}
        \cup {Link(other, {"nofollow", "noopener"}, Text("here", TRUE, TRUE), <<"en", "US">>)}
        \cup {Link(other, {}, text, lang) : text \in Texts, lang \in Langs}

\* ---------------------------------------------------------------- the audit
\* The links the first filter keeps (line 138).
FollowedLinks == SelectSeq(linkText.artifacts.AnchorElements, Followed)

\* The second filter's callback returns for the link at hand.
FilterReturns(failing) ==
  [linkText EXCEPT
     !.pc = "filter", !.k = @ + 1, !.lang = <<"">>,
     !.failingLinks = IF failing THEN Append(@, FollowedLinks[linkText.k]) ELSE @]

\* Lines 140-157: the second filter's callback on the next link, up to the walk.
LinkTextFilter ==
  /\ linkText.pc = "filter"
  /\ linkText.k <= Len(FollowedLinks)
  /\ LET link == FollowedLinks[linkText.k]
     IN  linkText' =
           IF Excluded(link, linkText.artifacts.URL.finalDisplayedUrl)
             THEN FilterReturns(FALSE)
           ELSE IF ~NonEmpty(SearchTerm(link))
             THEN FilterReturns(FALSE)
           ELSE [linkText EXCEPT !.pc = "walk", !.lang = link.textLang]
  /\ UNCHANGED <<phases, anchorElements, collect>>
  /\ UNCHANGED <<classVars, cacheVars>>

\* set.has(text): the Set holds lower-case strings without white space around.
Has(set, text) == ~text.upper /\ ~text.padded /\ text.word \in set

\* Lines 157-163: one test of `while (lang)` and, if it holds, one pass of the
\* body. An entry that is not a Set has no method has, and calling it throws.
LinkTextWalk ==
  /\ linkText.pc = "walk"
  /\ linkText' =
       LET lang == linkText.lang
           entry == Lookup(lang)
           searchTerm == SearchTerm(FollowedLinks[linkText.k])
       IN  IF ~LangTruthy(lang) THEN FilterReturns(FALSE)
           ELSE IF entry = None THEN [linkText EXCEPT !.lang = Substring(lang)]
           ELSE IF "set" \notin DOMAIN entry
             THEN [pc |-> "thrown", artifacts |-> linkText.artifacts,
                   error |-> "TypeError: nonDescriptiveLinkTexts[lang].has is not a function"]
           ELSE IF Has(entry.set, searchTerm) THEN FilterReturns(TRUE)
           ELSE [linkText EXCEPT !.lang = Substring(lang)]
  /\ UNCHANGED <<phases, anchorElements, collect>>
  /\ UNCHANGED <<classVars, cacheVars>>

\* Lines 167-191: the failing links are mapped and the product returned.
LinkTextReturn ==
  /\ linkText.pc = "filter"
  /\ linkText.k > Len(FollowedLinks)
  /\ linkText' =
       [pc |-> "done", artifacts |-> linkText.artifacts,
        failingLinks |-> linkText.failingLinks,
        product |->
          [score |-> IF Len(linkText.failingLinks) = 0 THEN 1 ELSE 0,
           items |-> [n \in 1..Len(linkText.failingLinks) |->
                        [href |-> linkText.failingLinks[n].href,
                         text |-> Trim(linkText.failingLinks[n].text)]]]]
  /\ UNCHANGED <<phases, anchorElements, collect>>
  /\ UNCHANGED <<classVars, cacheVars>>

\* ================================================= AnchorElements.getArtifact
\* core/gather/gatherers/anchor-elements.js, lines 128-176: the gatherer and the
\* protocol session it drives. sent lists the commands handed to
\* session.sendCommand in order, received those that have been answered.

Command(method) == [method |-> method]

\* session.sendCommand('DOMDebugger.getEventListeners', {objectId})
GetEventListenersCommand(objectId) ==
  [method |-> "DOMDebugger.getEventListeners", objectId |-> objectId]

\* The anchors collectAnchorElements finds in the page.
Anchor(name, devtoolsNodePath) ==
  [text |-> name, node |-> [devtoolsNodePath |-> devtoolsNodePath]]

PageAnchors ==
  {Anchor("home", "1,HTML,1,BODY,0,A"), Anchor("docs", "1,HTML,1,BODY,1,A")}

\* response.listeners.map(({type}) => ({type}))  (line 136)
ListenerTypes(listeners) == [n \in 1..Len(listeners) |-> [type |-> listeners[n].type]]

\* The object id the browser gives the node at a path.
ObjectIdOf(devtoolsNodePath) == [objectId |-> devtoolsNodePath]

Thrown == [anchorElements EXCEPT !.pc = "thrown"]

\* Lines 152-160: evaluate returns the anchors and DOM.enable is sent, or
\* evaluate rejects.
GetArtifactEvaluate ==
  /\ anchorElements.pc = "evaluate"
  /\ \/ anchorElements' =
          [anchorElements EXCEPT !.pc = "awaitEnable", !.anchors = anchorElements.page,
                                 !.sent = Append(@, Command("DOM.enable"))]
     \/ anchorElements' = Thrown
  /\ UNCHANGED <<phases, linkText, collect>>
  /\ UNCHANGED <<classVars, cacheVars>>

\* Lines 160-163: DOM.enable is answered and DOM.getDocument sent.
GetArtifactEnabled ==
  /\ anchorElements.pc = "awaitEnable"
  /\ \/ anchorElements' =
          [anchorElements EXCEPT !.pc = "awaitDocument",
                                 !.received = Append(@, Command("DOM.enable")),
                                 !.sent = Append(@, Command("DOM.getDocument"))]
     \/ anchorElements' = Thrown
  /\ UNCHANGED <<phases, linkText, collect>>
  /\ UNCHANGED <<classVars, cacheVars>>

\* The callback of anchors.map runs for every anchor up to its first await:
\* getEventListeners calls resolveDevtoolsNodePathToObjectId (lines 164-165, 129).
StartLookups(anchors) == [n \in 1..Len(anchors) |-> [pc |-> "resolving"]]

\* Lines 163-173: DOM.getDocument is answered, every lookup is started, and
\* getArtifact awaits Promise.all.
GetArtifactDocument ==
  /\ anchorElements.pc = "awaitDocument"
  /\ \/ anchorElements' =
          [anchorElements EXCEPT !.pc = "awaitAll",
                                 !.received = Append(@, Command("DOM.getDocument")),
                                 !.lookups = StartLookups(anchorElements.anchors)]
     \/ anchorElements' = Thrown
  /\ UNCHANGED <<phases, linkText, collect>>
  /\ UNCHANGED <<classVars, cacheVars>>

Lookups == DOMAIN anchorElements.lookups

\* Lines 129-134: resolveDevtoolsNodePathToObjectId settles. Without an object
\* id the lookup returns []; with one it sends DOMDebugger.getEventListeners.
LookupResolved(n) ==
  /\ anchorElements.lookups[n].pc = "resolving"
  /\ \/ anchorElements' =
          [anchorElements EXCEPT
             !.lookups[n] = [pc |-> "done", objectId |-> None, listeners |-> <<>>]]
     \/ LET objectId == ObjectIdOf(anchorElements.anchors[n].node.devtoolsNodePath)
        IN  anchorElements' =
              [anchorElements EXCEPT
                 !.lookups[n] = [pc |-> "listening", objectId |-> objectId],
                 !.sent = Append(@, GetEventListenersCommand(objectId))]
     \/ anchorElements' = [anchorElements EXCEPT !.lookups[n] = [pc |-> "failed"]]
  /\ UNCHANGED <<phases, linkText, collect>>
  /\ UNCHANGED <<classVars, cacheVars>>

\* Lines 132-136: DOMDebugger.getEventListeners is answered.
LookupListeners(n) ==
  /\ anchorElements.lookups[n].pc = "listening"
  /\ \/ \E listeners \in {<<>>, <<[type |-> "click", useCapture |-> FALSE]>>} :
          anchorElements' =
            [anchorElements EXCEPT
               !.lookups[n] = [pc |-> "done", objectId |-> anchorElements.lookups[n].objectId,
                               listeners |-> ListenerTypes(listeners)],
               !.received =
                 Append(@, GetEventListenersCommand(anchorElements.lookups[n].objectId))]
     \/ anchorElements' = [anchorElements EXCEPT !.lookups[n] = [pc |-> "failed"]]
  /\ UNCHANGED <<phases, linkText, collect>>
  /\ UNCHANGED <<classVars, cacheVars>>

\* A promise that fulfils with the first lookup to finish.
AnyFulfilled ==
  Lookups = {} \/ \E n \in Lookups : anchorElements.lookups[n].pc = "done"

\* Promise.all(anchorsWithEventListeners) fulfils: no lookup is unfinished.
AllFulfilled == \A n \in Lookups : anchorElements.lookups[n].pc = "done"

\* {...anchor, listeners} for each anchor, in the order of anchors (lines 166-173).
AnchorsWithEventListeners ==
  [n \in 1..Len(anchorElements.anchors) |->
     [text |-> anchorElements.anchors[n].text, node |-> anchorElements.anchors[n].node,
      listeners |-> IF anchorElements.lookups[n].pc = "done"
                    THEN anchorElements.lookups[n].listeners ELSE None]]

\* Lines 173-174: Promise.all fulfils and DOM.disable is sent.
GetArtifactAll ==
  /\ anchorElements.pc = "awaitAll"
  /\ AllFulfilled
  /\ anchorElements' =
       [pc |-> "awaitDisable", page |-> anchorElements.page,
        anchors |-> anchorElements.anchors,
        sent |-> Append(anchorElements.sent, Command("DOM.disable")),
        received |-> anchorElements.received, lookups |-> anchorElements.lookups,
        result |-> AnchorsWithEventListeners]
  /\ UNCHANGED <<phases, linkText, collect>>
  /\ UNCHANGED <<classVars, cacheVars>>

\* Line 173: Promise.all rejects as soon as one lookup has; the other lookups
\* go on, and nothing after the await is run.
GetArtifactAllRejects ==
  /\ anchorElements.pc = "awaitAll"
  /\ \E n \in Lookups : anchorElements.lookups[n].pc = "failed"
  /\ anchorElements' = Thrown
  /\ UNCHANGED <<phases, linkText, collect>>
  /\ UNCHANGED <<classVars, cacheVars>>

\* Lines 174-175: DOM.disable is answered and the result returned.
GetArtifactReturn ==
  /\ anchorElements.pc = "awaitDisable"
  /\ \/ anchorElements' =
          [anchorElements EXCEPT !.pc = "returned",
                                 !.received = Append(@, Command("DOM.disable"))]
     \/ anchorElements' = Thrown
  /\ UNCHANGED <<phases, linkText, collect>>
  /\ UNCHANGED <<classVars, cacheVars>>

\* ============================================ trace-fixture collection script
\* The top-level script that collects the trace fixtures (src/unnamed/part_000,
\* lines 21-49) with the verify of the redirect fixture
\* (core/test/scripts/trace-fixtures/redirect/user-flow.js, lines 27-44).
\* events lists what the script has done, in order; every await can reject.

\* collectMetas (lines 21-26): the fixtures by name, in list order.
FixtureNames == <<"animation", "redirect", "user-timings", "video-embed">>

\* The lists collectMetas can be. A fixture's saveTrace and saveDevtoolsLog
\* are file names or undefined: the redirect fixture names both (user-flow.js
\* lines 46-53), the other fixtures name either file or not.
CollectMetasSet ==
  {metas \in [1..Len(FixtureNames) ->
                [name : {FixtureNames[n] : n \in 1..Len(FixtureNames)},
                 saveTrace : BOOLEAN, saveDevtoolsLog : BOOLEAN]] :
     /\ \A n \in 1..Len(FixtureNames) : metas[n].name = FixtureNames[n]
     /\ metas[2].saveTrace /\ metas[2].saveDevtoolsLog}

\* What the redirect fixture's verify looks at in the artifacts.
RedirectArtifacts ==
  [redirectStart : BOOLEAN, redirects : {2, 3}, reload : BOOLEAN]

\* The artifacts a fixture's flow gives; the other fixtures' verify is known by
\* its outcome only.
ArtifactsOf(name) ==
  IF name = "redirect" THEN RedirectArtifacts ELSE [verifies : BOOLEAN]

\* verify(artifacts) of the redirect fixture (user-flow.js lines 27-44): TRUE
\* iff it returns rather than throws.
RedirectVerify(artifacts) ==
  /\ artifacts.redirectStart
  /\ artifacts.redirects = 3
  /\ artifacts.reload

\* collectMeta.verify(artifacts) (line 38)
Verify(name, artifacts) ==
  IF name = "redirect" THEN RedirectVerify(artifacts) ELSE artifacts.verifies

Event(step, fixture) == [step |-> step, fixture |-> fixture]

\* A step inside the try block throws: control goes to the finally block with
\* the error pending.
ThrowInTry == [collect EXCEPT !.pc = "finally", !.error = TRUE, !.artifacts = None]

Did(step) == Append(collect.events, Event(step, collect.k))

\* Line 28: const browser = await puppeteer.launch()
Launch ==
  /\ collect.pc = "launch"
  /\ \/ collect' = [collect EXCEPT !.pc = "listen", !.browser = "open"]
     \/ collect' = [collect EXCEPT !.pc = "failed", !.error = TRUE]
  /\ UNCHANGED <<phases, linkText, anchorElements>>
  /\ UNCHANGED <<classVars, cacheVars>>

\* Lines 29-33: the server is made and listens; the try block is entered.
Listen ==
  /\ collect.pc = "listen"
  /\ \/ collect' = [collect EXCEPT !.pc = "loop", !.server = "listening"]
     \/ collect' = [collect EXCEPT !.pc = "failed", !.error = TRUE]
  /\ UNCHANGED <<phases, linkText, anchorElements>>
  /\ UNCHANGED <<classVars, cacheVars>>

\* Lines 34-35: the loop takes the next fixture and opens a page, or is done.
NewPage ==
  /\ collect.pc = "loop"
  /\ IF collect.k > Len(collect.collectMetas)
     THEN collect' = [collect EXCEPT !.pc = "finally"]
     ELSE \/ collect' = [collect EXCEPT !.pc = "runUserFlow", !.events = Did("newPage")]
          \/ collect' = ThrowInTry
  /\ UNCHANGED <<phases, linkText, anchorElements>>
  /\ UNCHANGED <<classVars, cacheVars>>

\* Lines 36-37: the flow is run and its artifacts taken.
RunUserFlow ==
  /\ collect.pc = "runUserFlow"
  /\ \/ \E artifacts \in ArtifactsOf(collect.collectMetas[collect.k].name) :
          collect' = [collect EXCEPT !.pc = "verify", !.artifacts = artifacts,
                                     !.events = Did("runUserFlow")]
     \/ collect' = ThrowInTry
  /\ UNCHANGED <<phases, linkText, anchorElements>>
  /\ UNCHANGED <<classVars, cacheVars>>

\* Where the loop goes after verify (lines 39-45).
AfterVerify(meta) ==
  IF meta.saveTrace THEN "saveTrace"
  ELSE IF meta.saveDevtoolsLog THEN "saveDevtoolsLog" ELSE "next"

\* Line 38: collectMeta.verify(artifacts)
VerifyArtifacts ==
  /\ collect.pc = "verify"
  /\ LET meta == collect.collectMetas[collect.k]
     IN  collect' =
           IF Verify(meta.name, collect.artifacts)
           THEN [collect EXCEPT !.pc = AfterVerify(meta), !.events = Did("verify")]
           ELSE ThrowInTry
  /\ UNCHANGED <<phases, linkText, anchorElements>>
  /\ UNCHANGED <<classVars, cacheVars>>

\* Lines 39-41: await saveTrace(...)
SaveTrace ==
  /\ collect.pc = "saveTrace"
  /\ \/ collect' = [collect EXCEPT
                      !.pc = IF collect.collectMetas[collect.k].saveDevtoolsLog
                             THEN "saveDevtoolsLog" ELSE "next",
                      !.events = Did("saveTrace")]
     \/ collect' = ThrowInTry
  /\ UNCHANGED <<phases, linkText, anchorElements>>
  /\ UNCHANGED <<classVars, cacheVars>>

\* Lines 42-44: await saveDevtoolsLog(...)
SaveDevtoolsLog ==
  /\ collect.pc = "saveDevtoolsLog"
  /\ \/ collect' = [collect EXCEPT !.pc = "next", !.events = Did("saveDevtoolsLog")]
     \/ collect' = ThrowInTry
  /\ UNCHANGED <<phases, linkText, anchorElements>>
  /\ UNCHANGED <<classVars, cacheVars>>

\* Line 45: the loop body ends.
NextFixture ==
  /\ collect.pc = "next"
  /\ collect' = [collect EXCEPT !.pc = "loop", !.k = @ + 1, !.artifacts = None]
  /\ UNCHANGED <<phases, linkText, anchorElements>>
  /\ UNCHANGED <<classVars, cacheVars>>

\* Line 47: await server.close(). If it rejects, the finally block is left.
ServerClose ==
  /\ collect.pc = "finally"
  /\ \/ collect' = [collect EXCEPT !.pc = "closeBrowser", !.server = "closed",
                                   !.events = Append(@, Event("server.close", 0))]
     \/ collect' = [collect EXCEPT !.pc = "failed", !.error = TRUE,
                                   !.events = Append(@, Event("server.close", 0))]
  /\ UNCHANGED <<phases, linkText, anchorElements>>
  /\ UNCHANGED <<classVars, cacheVars>>

\* Lines 48-49: await browser.close(); the script ends, with the pending error
\* if there is one.
BrowserClose ==
  /\ collect.pc = "closeBrowser"
  /\ \/ collect' = [collect EXCEPT !.pc = IF collect.error THEN "failed" ELSE "exited",
                                   !.browser = "closed",
                                   !.events = Append(@, Event("browser.close", 0))]
     \/ collect' = [collect EXCEPT !.pc = "failed", !.error = TRUE,
                                   !.events = Append(@, Event("browser.close", 0))]
  /\ UNCHANGED <<phases, linkText, anchorElements>>
  /\ UNCHANGED <<classVars, cacheVars>>

\* ------------------------------------------------------------------- idling
\* Nothing but the classification and the cache is followed.
AuditIdle ==
  /\ phases = [pc |-> "idle"]
  /\ linkText = [pc |-> "idle"]
  /\ anchorElements = [pc |-> "idle"]
  /\ collect = [pc |-> "idle"]

\* ------------------------------------------------------------ specifications
\* One call of EntityClassification.compute_, step by step.
Init == ClassInit /\ CacheInit /\ AuditIdle

Next ==
  \/ NetworkRecordsResolve
  \/ NetworkRecordsReject
  \/ PreloadChromeExtension
  \/ ClassifyRecord
  \/ ResolveFirstParty

Spec == Init /\ [][Next]_vars

\* Two calls of EntityClassification.compute_ with the same data, one after the
\* other, each in a context of its own.
NextTwice ==
  \/ NetworkRecordsResolve
  \/ NetworkRecordsReject
  \/ PreloadChromeExtension
  \/ ClassifyRecord
  \/ ResolveFirstParty
  \/ CallAgain

InitTwice == Init /\ Len(devtoolsLog) <= MaxLogTwice

SpecTwice == InitTwice /\ [][NextTwice]_vars

\* The consumers of NetworkRecords and EntityClassification in one run.
InitCache == ClassIdle /\ CacheInit /\ AuditIdle

NextCache ==
  \/ \E c \in Callers :
       \E artifact \in {"NetworkRecords", "EntityClassification"} :
         \E data \in DataSet : CallerRequest(c, artifact, data)
  \/ \E c \in Callers : CallerResume(c)
  \/ \E ref \in LivePromises : ProducerReturns(ref)
  \/ \E ref \in LivePromises : ProducerThrows(ref)
  \/ \E ref \in LivePromises : EntityClassificationResume(ref)

SpecCache == InitCache /\ [][NextCache]_vars

\* The consumers that are followed to the end of their requests.
LiveCallers == {c \in Callers : c <= MaxLiveCallers}

\* The consumers of one run, some of which give up waiting. Every producer that
\* awaits nothing of the cache eventually returns or throws, and a continuation
\* whose promise has settled is eventually run (the microtask queue is drained).
NextLive ==
  \/ \E c \in LiveCallers :
       \E artifact \in {"NetworkRecords", "EntityClassification"} :
         \E data \in DataSet : CallerRequest(c, artifact, data)
  \/ \E c \in Callers : CallerResume(c)
  \/ \E c \in Callers : CallerAbandon(c)
  \/ \E ref \in LivePromises : ProducerReturns(ref)
  \/ \E ref \in LivePromises : ProducerThrows(ref)
  \/ \E ref \in LivePromises : EntityClassificationResume(ref)

FairLive ==
  /\ \A c \in Callers : WF_vars(CallerResume(c))
  /\ WF_vars(\E ref \in LivePromises : ProducerReturns(ref) \/ ProducerThrows(ref))
  /\ WF_vars(\E ref \in LivePromises : EntityClassificationResume(ref))

SpecLive == InitCache /\ [][NextLive]_vars /\ FairLive

\* makePhaseTable's arithmetic on every combination of timings.
\* The timings are those makePhaseTable has after its awaits (lines 64-66);
\* loadStart and loadEnd are optional.
InitPhases ==
  /\ ClassIdle /\ CacheInit
  /\ \E metricLcp \in Timings, ttfb \in Timings :
       \E loadStart \in OptionalTimings, loadEnd \in OptionalTimings :
         phases = [pc |-> "start", metricLcp |-> metricLcp, ttfb |-> ttfb,
                   loadStart |-> loadStart, loadEnd |-> loadEnd]
  /\ linkText = [pc |-> "idle"]
  /\ anchorElements = [pc |-> "idle"]
  /\ collect = [pc |-> "idle"]

NextPhases == MakePhaseTable

SpecPhases == InitPhases /\ [][NextPhases]_vars

\* LinkText.audit on every page of at most MaxLinks anchors.
InitLinkText ==
  /\ ClassIdle /\ CacheInit
  /\ \E anchors \in SeqsUpTo(Links, MaxLinks) :
       linkText =
         [pc |-> "filter",
          artifacts |->
            [AnchorElements |-> anchors,
             URL |-> [finalDisplayedUrl |->
                        Href("https:", FALSE, "//www.example.com/", "")]],
          k |-> 1, lang |-> <<"">>, failingLinks |-> <<>>]
  /\ phases = [pc |-> "idle"]
  /\ anchorElements = [pc |-> "idle"]
  /\ collect = [pc |-> "idle"]

NextLinkText ==
  \/ LinkTextFilter
  \/ LinkTextWalk
  \/ LinkTextReturn

SpecLinkText == InitLinkText /\ [][NextLinkText]_vars

\* AnchorElements.getArtifact and the lookups it starts.
InitAnchorElements ==
  /\ ClassIdle /\ CacheInit
  /\ \E anchors \in SeqsUpTo(PageAnchors, MaxAnchors) :
       anchorElements = [pc |-> "evaluate", page |-> anchors, anchors |-> <<>>,
                         sent |-> <<>>, received |-> <<>>, lookups |-> <<>>]
  /\ phases = [pc |-> "idle"]
  /\ linkText = [pc |-> "idle"]
  /\ collect = [pc |-> "idle"]

NextAnchorElements ==
  \/ GetArtifactEvaluate
  \/ GetArtifactEnabled
  \/ GetArtifactDocument
  \/ \E n \in Lookups : LookupResolved(n)
  \/ \E n \in Lookups : LookupListeners(n)
  \/ GetArtifactAll
  \/ GetArtifactAllRejects
  \/ GetArtifactReturn

SpecAnchorElements == InitAnchorElements /\ [][NextAnchorElements]_vars

\* One run of the trace-fixture collection script.
InitCollect ==
  /\ ClassIdle /\ CacheInit
  /\ \E metas \in CollectMetasSet :
       collect = [pc |-> "launch", collectMetas |-> metas, k |-> 1, artifacts |-> None,
                  browser |-> "none", server |-> "none", events |-> <<>>,
                  error |-> FALSE]
  /\ phases = [pc |-> "idle"]
  /\ linkText = [pc |-> "idle"]
  /\ anchorElements = [pc |-> "idle"]

NextCollect ==
  \/ Launch
  \/ Listen
  \/ NewPage
  \/ RunUserFlow
  \/ VerifyArtifacts
  \/ SaveTrace
  \/ SaveDevtoolsLog
  \/ NextFixture
  \/ ServerClose
  \/ BrowserClose

SpecCollect == InitCollect /\ [][NextCollect]_vars

\* makePhaseTable beside other consumers of the two LCP artifacts.
NextMetrics ==
  \/ \E c \in Callers :
       \E artifact \in {"LargestContentfulPaint", "LCPBreakdown"} :
         \E data \in TraceDataSet : CallerRequest(c, artifact, data)
  \/ \E c \in Callers : CallerResume(c)
  \/ \E ref \in LivePromises : ProducerReturns(ref)
  \/ \E ref \in LivePromises : ProducerThrows(ref)
  \/ PhaseTableRequestLcp(RunArtifacts)
  \/ PhaseTableRequestBreakdown
  \/ PhaseTableReturn

SpecMetrics == InitCache /\ [][NextMetrics]_vars

\* ================================================================== claims
\* URLs of the network records processed so far.
RecordUrlsSeen == {networkRecords[k].url : k \in 1..(i - 1)}

Unrecognised(url) == GetEntity(url) = None

SameInstance(e1, e2) == e1.id = e2.id

\* C1 as stated: after compute_ has finished, every two classified record URLs
\* with the same root domain are mapped to the same Entity instance.
C1_SameRootDomainSameInstance ==
  pc = "done" =>
    \A u1 \in DOMAIN entityByUrl : \A u2 \in DOMAIN entityByUrl :
      GetRootDomain(u1) = GetRootDomain(u2) =>
        SameInstance(entityByUrl[u1], entityByUrl[u2])

\* C1 amended: after compute_ has finished, every two classified record URLs
\* that the Known-Entity Reference does not recognise and that makeUpAnEntity
\* files under the same key (root domain, or extension origin) are mapped to the
\* same Entity instance.
C1_UnrecognisedSameKeySameInstance ==
  pc = "done" =>
    \A u1 \in DOMAIN entityByUrl : \A u2 \in DOMAIN entityByUrl :
      (Unrecognised(u1) /\ Unrecognised(u2) /\ RootDomainOf(u1) = RootDomainOf(u2)) =>
        /\ SameInstance(entityByUrl[u1], entityByUrl[u2])
        /\ entityByUrl[u1] = entityByUrl[u2]

C1_Witness ==
  /\ pc = "done"
  /\ {UrlSubA, UrlOtherB} \subseteq DOMAIN entityByUrl
  /\ Unrecognised(UrlSubA) /\ Unrecognised(UrlOtherB)
  /\ SameInstance(entityByUrl[UrlSubA], entityByUrl[UrlOtherB])

\* ------------------------------------------------------------------ C7
IsExtensionContext(entry) ==
  /\ entry.method = "Runtime.executionContextCreated"
  /\ Head(entry.origin) = "chrome-extension:"

\* Positions of the log's executionContextCreated events for an extension origin.
ContextsOf(origin) ==
  {k \in 1..Len(devtoolsLog) :
     IsExtensionContext(devtoolsLog[k]) /\ devtoolsLog[k].origin = origin}

FirstContextOf(origin) ==
  CHOOSE k \in ContextsOf(origin) : \A m \in ContextsOf(origin) : k <= m

IsPreloaded(entity, name) ==
  /\ entity.category = "Chrome Extension"
  /\ entity.name = name
  /\ "isUnrecognized" \notin DOMAIN entity

\* C7 as stated: for every executionContextCreated event of the log with an
\* extension origin O and name N, every unrecognised record URL under O
\* resolves to the preloaded entity with category 'Chrome Extension' and name N.
C7_EveryContextNameWins ==
  pc = "done" =>
    \A k \in 1..Len(devtoolsLog) : \A u \in RecordUrlsSeen :
      (/\ IsExtensionContext(devtoolsLog[k])
       /\ u.protocol = "chrome-extension:"
       /\ GetChromeExtensionOrigin(u) = devtoolsLog[k].origin
       /\ Unrecognised(u)) =>
        /\ u \in DOMAIN entityByUrl
        /\ IsPreloaded(entityByUrl[u], devtoolsLog[k].name)

\* C7 amended: if the log contains, at any position, an executionContextCreated
\* event with an extension origin O, every unrecognised record URL under O
\* resolves to the preloaded entity: category 'Chrome Extension', and the name of
\* the first such event for O in log order; never a generic synthesized entity.
C7_FirstContextNameWins ==
  pc = "done" =>
    \A u \in RecordUrlsSeen :
      (/\ u.protocol = "chrome-extension:"
       /\ ContextsOf(GetChromeExtensionOrigin(u)) # {}
       /\ Unrecognised(u)) =>
        /\ u \in DOMAIN entityByUrl
        /\ IsPreloaded(entityByUrl[u],
                       devtoolsLog[FirstContextOf(GetChromeExtensionOrigin(u))].name)

\* The request precedes the context event in the log, and still gets its entity.
C7_Witness ==
  /\ pc = "done"
  /\ Len(devtoolsLog) >= 2
  /\ devtoolsLog[1] = RequestWillBeSent(UrlExtJs)
  /\ devtoolsLog[2] = ContextCreated(ExtOrigin, <<"My Ext">>)
  /\ UrlExtJs \in DOMAIN entityByUrl
  /\ IsPreloaded(entityByUrl[UrlExtJs], <<"My Ext">>)

\* ------------------------------------------------------------------ C8
SynthesisSchemes == {"http:", "https:", "chrome-extension:"}

\* C8: a processed record URL that the reference does not recognise and whose
\* scheme is not http, https or chrome-extension (data:, about:, and a scheme
\* that merely begins with 'http') gets no entity and is absent from entityByUrl.
C8_OtherSchemesRejected ==
  \A u \in RecordUrlsSeen :
    (Unrecognised(u) /\ u.protocol \notin SynthesisSchemes) =>
      u \notin DOMAIN entityByUrl

\* ------------------------------------------------------------------ C9
\* The URL the page is identified by.
PageUrl == IF URL.mainDocumentUrl # None THEN URL.mainDocumentUrl ELSE URL.finalDisplayedUrl

\* makeUpAnEntity produces an entity for the URL.
Synthesizable(url) ==
  /\ IsValid(url)
  /\ url.protocol = "chrome-extension:" \/ StartsWithHttp(url.protocol)
  /\ RootDomainOf(url) # <<>>

\* The two URLs resolve to one entity: the same dataset entity, or the same key
\* of the synthesized-entity cache.
ResolveAlike(u1, u2) ==
  \/ ~Unrecognised(u1) /\ GetEntity(u1) = GetEntity(u2)
  \/ /\ Unrecognised(u1) /\ Unrecognised(u2)
     /\ Synthesizable(u1) /\ Synthesizable(u2)
     /\ RootDomainOf(u1) = RootDomainOf(u2)

\* C9: firstParty is the entity of mainDocumentUrl when present and of
\* finalDisplayedUrl otherwise, resolved by the reference and then through the
\* same synthesized-entity cache as the records; isFirstParty(u) is true for
\* every classified record URL that resolves to the page's entity and false for
\* every other classified record URL.
C9_FirstPartyResolution ==
  pc = "done" =>
    /\ ~Unrecognised(PageUrl) => firstParty = GetEntity(PageUrl)
    /\ (Unrecognised(PageUrl) /\ Synthesizable(PageUrl)) =>
         /\ firstParty # None
         /\ firstParty = MapGet(madeUpEntityCache, RootDomainOf(PageUrl))
    /\ (Unrecognised(PageUrl) /\ ~Synthesizable(PageUrl)) => firstParty = None
    /\ \A u \in DOMAIN entityByUrl : isFirstParty(u) <=> ResolveAlike(u, PageUrl)

C9_Witness ==
  /\ pc = "done"
  /\ URL.mainDocumentUrl = UrlPage
  /\ URL.finalDisplayedUrl = UrlPageOrg
  /\ {UrlSubA, UrlCdn} \subseteq DOMAIN entityByUrl
  /\ isFirstParty(UrlSubA)
  /\ ~isFirstParty(UrlCdn)
  /\ reference = "cdn"

\* ------------------------------------------------------------------ C10
\* C10: urlsByEntity is the inverse index of entityByUrl after every processed
\* record: u is in urlsByEntity[e] iff entityByUrl[u] is e, and no key of
\* urlsByEntity has an empty set.
C10_InverseIndex ==
  /\ \A e \in DOMAIN urlsByEntity :
       /\ urlsByEntity[e] # {}
       /\ \A u \in Urls :
            u \in urlsByEntity[e] <=> (u \in DOMAIN entityByUrl /\ entityByUrl[u] = e)
  /\ \A u \in DOMAIN entityByUrl :
       /\ entityByUrl[u] \in DOMAIN urlsByEntity
       /\ Cardinality({e \in DOMAIN urlsByEntity : u \in urlsByEntity[e]}) = 1
  /\ \A e1 \in DOMAIN urlsByEntity : \A e2 \in DOMAIN urlsByEntity :
       SameInstance(e1, e2) => e1 = e2

C10_Witness ==
  /\ pc = "done"
  /\ \E e \in DOMAIN urlsByEntity : Cardinality(urlsByEntity[e]) = 2
  /\ Cardinality(DOMAIN urlsByEntity) = 2

\* ------------------------------------------------------------------ C11
IsUnrecognized(entity) ==
  "isUnrecognized" \in DOMAIN entity /\ entity.isUnrecognized

IsExtensionKey(key) == Head(key) = "chrome-extension:"

\* The entities of the result: the values of entityByUrl, and firstParty.
ResultEntities ==
  {entityByUrl[u] : u \in DOMAIN entityByUrl} \cup ({firstParty} \ {None})

\* C11 as stated: isUnrecognized is true only on entities synthesized from an
\* unmatched web root domain: no entity filed under a chrome-extension origin
\* (preloaded from the log, or created for an extension URL found only in the
\* network records), no entity of an extension URL and no reference-dataset
\* entity has isUnrecognized set.
C11_OnlyWebRootDomains ==
  /\ \A key \in DOMAIN madeUpEntityCache :
       IsExtensionKey(key) => ~IsUnrecognized(madeUpEntityCache[key])
  /\ \A u \in DOMAIN entityByUrl :
       (u.protocol = "chrome-extension:" \/ ~Unrecognised(u)) =>
         ~IsUnrecognized(entityByUrl[u])
  /\ \A e \in ResultEntities : e.id.heap = "dataset" => ~IsUnrecognized(e)

\* C11 amended: isUnrecognized is true exactly on the entities makeUpAnEntity
\* constructs, for an unmatched web root domain and also for an extension
\* origin that no executionContextCreated event of the log names; it is not
\* set on an entity preloaded from the log nor on a reference-dataset entity.
C11_ExactlyMadeUpEntities ==
  /\ \A key \in DOMAIN madeUpEntityCache :
       IsUnrecognized(madeUpEntityCache[key]) <=> ContextsOf(key) = {}
  /\ \A key \in DOMAIN madeUpEntityCache :
       ~IsExtensionKey(key) => IsUnrecognized(madeUpEntityCache[key])
  /\ \A e \in ResultEntities :
       /\ e.id.heap = "dataset" => ~IsUnrecognized(e)
       /\ e.id.heap = "run" =>
            \E key \in DOMAIN madeUpEntityCache : madeUpEntityCache[key] = e
  /\ \A u \in DOMAIN entityByUrl :
       IF Unrecognised(u)
       THEN IsUnrecognized(entityByUrl[u]) <=> ContextsOf(RootDomainOf(u)) = {}
       ELSE ~IsUnrecognized(entityByUrl[u])

\* An extension URL found only in the network records, a reference-dataset
\* entity and an unmatched web root domain in one result.
C11_Witness ==
  /\ pc = "done"
  /\ {UrlExtJs, UrlCdn, UrlSubA} \subseteq DOMAIN entityByUrl
  /\ IsUnrecognized(entityByUrl[UrlExtJs])
  /\ entityByUrl[UrlExtJs].domains = <<>>
  /\ ~IsUnrecognized(entityByUrl[UrlCdn])
  /\ IsUnrecognized(entityByUrl[UrlSubA])

\* ------------------------------------------------------------------ C12
\* Invalid input data: the URL is unparseable, has a scheme other than http,
\* https and chrome-extension, or has no derivable root domain.
InvalidInput(url) ==
  \/ ~IsValid(url)
  \/ url.protocol \notin SynthesisSchemes
  \/ RootDomainOf(url) = <<>>

\* Once the records have arrived the call has a next step until it returns.
CompletesNormally ==
  /\ pc \in {"request", "rejected", "preload", "classify", "done"}
  /\ pc \in {"preload", "classify"} =>
       ENABLED (PreloadChromeExtension \/ ClassifyRecord \/ ResolveFirstParty)

\* C12: invalid input data never raises an error. The call completes normally
\* for every record sequence and page URL; every processed record whose URL is
\* unparseable, has an unsupported scheme or has no derivable root domain is
\* absent from entityByUrl; every other processed record URL is classified;
\* and an unclassifiable page URL yields an absent firstParty.
C12_InvalidInputOmitted ==
  /\ CompletesNormally
  /\ \A u \in RecordUrlsSeen :
       IF InvalidInput(u)
       THEN u \notin DOMAIN entityByUrl
       ELSE u \in DOMAIN entityByUrl
  /\ (pc = "done" /\ InvalidInput(PageUrl)) => firstParty = None

\* ------------------------------------------------------------------ C13
\* A step keeps every entry of the synthesized-entity cache as it is.
CacheEntriesKept ==
  \A key \in DOMAIN madeUpEntityCache :
    /\ key \in DOMAIN madeUpEntityCache'
    /\ madeUpEntityCache'[key] = madeUpEntityCache[key]

\* What the run has looked up is what the cache holds under the key.
LookupsAgree ==
  /\ \A k1 \in DOMAIN madeUpEntityCache : \A k2 \in DOMAIN madeUpEntityCache :
       SameInstance(madeUpEntityCache[k1], madeUpEntityCache[k2]) => k1 = k2
  /\ \A u \in DOMAIN entityByUrl :
       Unrecognised(u) =>
         /\ RootDomainOf(u) \in DOMAIN madeUpEntityCache
         /\ entityByUrl[u] = madeUpEntityCache[RootDomainOf(u)]
  /\ (pc = "done" /\ firstParty # None /\ Unrecognised(PageUrl)) =>
       /\ RootDomainOf(PageUrl) \in DOMAIN madeUpEntityCache
       /\ firstParty = madeUpEntityCache[RootDomainOf(PageUrl)]

\* C13: within a run the synthesized-entity cache holds one Entity per
\* canonical key and never replaces or removes an entry: over the preload, the
\* record classifications and the first-party resolution every step keeps the
\* entries there are, and every lookup of a key has returned the instance
\* first registered for it.
C13_CacheNeverReplaces ==
  [][CacheEntriesKept]_vars /\ []LookupsAgree

\* Two context events for one origin, a record under it, and the page's entity.
C13_Witness ==
  /\ pc = "done"
  /\ Cardinality(ContextsOf(ExtOrigin)) = 2
  /\ UrlExtJs \in DOMAIN entityByUrl
  /\ entityByUrl[UrlExtJs] = madeUpEntityCache[ExtOrigin]
  /\ firstParty # None
  /\ Cardinality(DOMAIN madeUpEntityCache) = 2

\* ------------------------------------------------------------------ C14
\* An entity without its address: what structural equality compares.
Fields(entity) == [f \in DOMAIN entity \ {"id"} |-> entity[f]]

\* urlsByEntity as the set of (entity fields, URL set) pairs.
Partition(byEntity) == {<<Fields(e), byEntity[e]>> : e \in DOMAIN byEntity}

StructurallyEqual(r1, r2) ==
  /\ DOMAIN r1.entityByUrl = DOMAIN r2.entityByUrl
  /\ \A u \in DOMAIN r1.entityByUrl :
       Fields(r1.entityByUrl[u]) = Fields(r2.entityByUrl[u])
  /\ \A u1 \in DOMAIN r1.entityByUrl : \A u2 \in DOMAIN r1.entityByUrl :
       (r1.entityByUrl[u1] = r1.entityByUrl[u2]) <=>
       (r2.entityByUrl[u1] = r2.entityByUrl[u2])
  /\ Cardinality(DOMAIN r1.urlsByEntity) = Cardinality(DOMAIN r2.urlsByEntity)
  /\ Partition(r1.urlsByEntity) = Partition(r2.urlsByEntity)
  /\ Fields(r1.firstParty) = Fields(r2.firstParty)
  /\ \A u \in Urls :
       (MapGet(r1.entityByUrl, u) = r1.firstParty) <=>
       (MapGet(r2.entityByUrl, u) = r2.firstParty)

AtClassifiedUrl ==
  /\ pc = "classify"
  /\ i <= Len(networkRecords)
  /\ networkRecords[i].url \in DOMAIN entityByUrl

FirstWriteWins ==
  /\ AtClassifiedUrl =>
       /\ i' = i + 1
       /\ UNCHANGED <<entityByUrl, urlsByEntity, madeUpEntityCache>>
  /\ \A u \in DOMAIN entityByUrl :
       /\ u \in DOMAIN entityByUrl'
       /\ entityByUrl'[u] = entityByUrl[u]

\* C15: first write wins. Once entityByUrl holds a mapping for a URL, a later
\* record with the same URL leaves entityByUrl, urlsByEntity and the
\* synthesized-entity cache unchanged, and no step changes the entity recorded
\* for a URL.
C15_FirstWriteWins == [][FirstWriteWins]_vars

\* A URL occurred twice in the records, with another of its entity in between.
C15_Witness ==
  /\ pc = "done"
  /\ Len(networkRecords) = 3
  /\ networkRecords[1].url = UrlSubA
  /\ networkRecords[2].url = UrlOtherB
  /\ networkRecords[3].url = UrlSubA
  /\ urlsByEntity[entityByUrl[UrlSubA]] = {UrlSubA, UrlOtherB}

\* ------------------------------------------------------------------ C16
\* C16: a processed record whose URL is not a structurally valid URL is
\* rejected before the reference is consulted: whatever the reference returns
\* for the string, the URL is absent from entityByUrl and from every set of
\* urlsByEntity.
C16_InvalidRejectedBeforeReference ==
  \A u \in RecordUrlsSeen :
    ~IsValid(u) =>
      /\ u \notin DOMAIN entityByUrl
      /\ \A e \in DOMAIN urlsByEntity : u \notin urlsByEntity[e]

\* ------------------------------------------------------------------ C17
\* The step is the first-party resolution.
ResolvesFirstParty == pc = "classify" /\ pc' = "done"

\* Keys the step adds to the synthesized-entity cache.
Added == DOMAIN madeUpEntityCache' \ DOMAIN madeUpEntityCache

\* The URL is classified to a synthesized entity that has the page's root domain.
SynthesizedUnderPageDomain(u) ==
  /\ u \in DOMAIN entityByUrl
  /\ IsUnrecognized(entityByUrl[u])
  /\ entityByUrl[u].name = RootDomainOf(PageUrl)

\* The resolution leaves the two maps alone and adds at most one entity, which
\* is then firstParty, no key of urlsByEntity and no record URL's entity.
FirstPartyFrame ==
  /\ UNCHANGED <<entityByUrl, urlsByEntity>>
  /\ CacheEntriesKept
  /\ Cardinality(Added) <= 1
  /\ \A key \in Added :
       /\ key = RootDomainOf(PageUrl)
       /\ firstParty' = madeUpEntityCache'[key]
       /\ firstParty' \notin DOMAIN urlsByEntity'
       /\ \A u \in DOMAIN entityByUrl' : entityByUrl'[u] # firstParty'
       /\ \A u \in DOMAIN entityByUrl : ~SynthesizedUnderPageDomain(u)

\* C17 as stated: first-party resolution leaves entityByUrl and urlsByEntity
\* unchanged; an entity it adds to the cache is firstParty, is not a key of
\* urlsByEntity and makes isFirstParty false for every classified record URL;
\* and when a record's synthesized entity has the page's root domain,
\* firstParty is that identical instance.
C17_RecordInstanceIsFirstParty ==
  [][ResolvesFirstParty =>
       /\ FirstPartyFrame
       /\ \A u \in DOMAIN entityByUrl :
            SynthesizedUnderPageDomain(u) => firstParty' = entityByUrl[u]]_vars

\* C17 amended: first-party resolution leaves entityByUrl and urlsByEntity
\* unchanged; an entity it adds to the cache is firstParty, is not a key of
\* urlsByEntity and makes isFirstParty false for every classified record URL;
\* when the reference does not recognise the page URL and a record's
\* synthesized entity has the page's root domain, firstParty is that identical
\* instance; when the reference recognises the page URL, firstParty is the
\* reference's entity and nothing is added.
C17_FirstPartyFrame ==
  [][ResolvesFirstParty =>
       /\ FirstPartyFrame
       /\ \A u \in DOMAIN entityByUrl :
            (Unrecognised(PageUrl) /\ SynthesizedUnderPageDomain(u)) =>
              firstParty' = entityByUrl[u]
       /\ ~Unrecognised(PageUrl) =>
            /\ firstParty' = GetEntity(PageUrl)
            /\ Added = {}]_vars

\* The page is example.com and the only record of that root domain is one the
\* reference recognises: the resolution registered a new entity.
C17_Witness ==
  /\ pc = "done"
  /\ PageUrl = UrlPage
  /\ DOMAIN entityByUrl = {UrlCdn, UrlExtJs}
  /\ IsUnrecognized(firstParty)
  /\ firstParty = madeUpEntityCache[RootDomainOf(UrlPage)]
  /\ firstParty \notin DOMAIN urlsByEntity
  /\ \A u \in DOMAIN entityByUrl : ~isFirstParty(u)

\* ------------------------------------------------------------------ C18
Counters(entity) ==
  <<entity.averageExecutionTime, entity.totalExecutionTime, entity.totalOccurrences>>

\* The fields makeUpAnEntity gives an entity it files under the key.
MadeUpFor(entity, key) ==
  /\ entity.name = key
  /\ entity.company = key
  /\ entity.category = ""
  /\ entity.categories = <<>>
  /\ entity.domains = IF IsExtensionKey(key) THEN <<>> ELSE <<key>>
  /\ Counters(entity) = <<0, 0, 0>>

\* The URL went through makeUpAnEntity and its key was not preloaded.
MadeUpUrl(u) ==
  /\ u \in DOMAIN entityByUrl
  /\ Unrecognised(u)
  /\ ContextsOf(RootDomainOf(u)) = {}

MadeUpEntitiesWellFormed ==
  /\ \A key \in DOMAIN madeUpEntityCache :
       IsUnrecognized(madeUpEntityCache[key]) =>
         MadeUpFor(madeUpEntityCache[key], key)
  /\ \A u \in Urls :
       MadeUpUrl(u) =>
         /\ madeUpEntityCache[RootDomainOf(u)] = entityByUrl[u]
         /\ IF u.protocol = "chrome-extension:"
            THEN MadeUpFor(entityByUrl[u], GetChromeExtensionOrigin(u))
            ELSE MadeUpFor(entityByUrl[u], GetRootDomain(u))

CountersKept ==
  /\ \A key \in DOMAIN madeUpEntityCache :
       Counters(madeUpEntityCache'[key]) = Counters(madeUpEntityCache[key])
  /\ \A u \in DOMAIN entityByUrl :
       Counters(entityByUrl'[u]) = Counters(entityByUrl[u])
  /\ \A e \in DOMAIN urlsByEntity : e \in DOMAIN urlsByEntity'

\* C18: an entity makeUpAnEntity synthesizes for a web URL has name = company
\* = the URL's root domain, domains = [root domain], empty category and
\* categories and zero counters, and is in the cache under that root domain;
\* for an extension URL the extension origin is key, name and company, and
\* domains is empty; and no step changes a counter of an entity.
C18_MadeUpEntityFields ==
  []MadeUpEntitiesWellFormed /\ [][CountersKept]_vars

\* A web URL and an extension URL went through makeUpAnEntity.
C18_Witness ==
  /\ pc = "done"
  /\ MadeUpUrl(UrlSubA)
  /\ MadeUpUrl(UrlExtJs)
  /\ entityByUrl[UrlSubA].domains = <<(<<"example", "com">>)>>
  /\ entityByUrl[UrlExtJs].name = ExtOrigin
  /\ entityByUrl[UrlExtJs].domains = <<>>

\* ------------------------------------------------------------------ C19
\* The extension origins of the executionContextCreated events among the first
\* n entries of the log.
ExtensionOrigins(n) ==
  {devtoolsLog[k].origin : k \in {m \in 1..n : IsExtensionContext(devtoolsLog[m])}}

\* The entity the preload registers for an origin with the given name.
PreloadedFor(entity, origin, name) ==
  /\ entity.name = name
  /\ entity.company = name
  /\ entity.category = "Chrome Extension"
  /\ entity.homepage = <<"https://chromewebstore.google.com/detail/">> \o Tail(origin)
  /\ entity.domains = <<>>
  /\ entity.categories = <<>>
  /\ Counters(entity) = <<0, 0, 0>>

\* The preload is running, or has run and no record has been classified yet.
InPreload == pc = "preload" \/ (pc = "classify" /\ i = 1)

\* C19: the preload registers exactly one entity per distinct chrome-extension
\* origin seen in Runtime.executionContextCreated events, under the full
\* origin, with name and company of the first such event for the origin in log
\* order; later events for the origin, and events with another method or with
\* an origin that does not start with the extension scheme, add nothing.
C19_OnePreloadedEntityPerOrigin ==
  /\ InPreload =>
       /\ DOMAIN madeUpEntityCache = ExtensionOrigins(j - 1)
       /\ alloc = Cardinality(ExtensionOrigins(j - 1))
  /\ pc \in {"preload", "classify", "done"} =>
       /\ \A origin \in ExtensionOrigins(j - 1) :
            /\ origin \in DOMAIN madeUpEntityCache
            /\ PreloadedFor(madeUpEntityCache[origin], origin,
                            devtoolsLog[FirstContextOf(origin)].name)
       /\ \A k1 \in DOMAIN madeUpEntityCache : \A k2 \in DOMAIN madeUpEntityCache :
            SameInstance(madeUpEntityCache[k1], madeUpEntityCache[k2]) => k1 = k2
       /\ \A key \in DOMAIN madeUpEntityCache :
            madeUpEntityCache[key].category = "Chrome Extension" =>
              key \in ExtensionOrigins(j - 1)

\* Two extension origins, one of them named twice, before any classification.
C19_Witness ==
  /\ pc = "classify"
  /\ i = 1
  /\ devtoolsLog = <<ContextCreated(ExtOrigin, <<"Other Name">>),
                     ContextCreated(OtherExtOrigin, <<"Second Ext">>),
                     ContextCreated(ExtOrigin, <<"My Ext">>)>>
  /\ DOMAIN madeUpEntityCache = {ExtOrigin, OtherExtOrigin}
  /\ madeUpEntityCache[ExtOrigin].name = <<"Other Name">>
  /\ alloc = 2

\* ------------------------------------------------------------------ C20
\* An extension URL the reference does not recognise, under an origin that no
\* executionContextCreated event of the log names.
FallsThrough(u) ==
  /\ u.protocol = "chrome-extension:"
  /\ Unrecognised(u)
  /\ ContextsOf(GetChromeExtensionOrigin(u)) = {}

Unclassified == {u \in Urls : u \notin DOMAIN entityByUrl}

\* C22: in every result isFirstParty(url) is true only for URLs present in
\* entityByUrl; for a URL that was never classified it is false, also when
\* firstParty is absent.
C22_FirstPartyOnlyClassified ==
  pc = "done" => \A u \in Unclassified : ~isFirstParty(u)

\* With a firstParty the claim's statement does hold: only the absent one fails.
C22_FirstPartyPresentOnlyClassified ==
  (pc = "done" /\ firstParty # None) => \A u \in Unclassified : ~isFirstParty(u)

\* ------------------------------------------------------------------ C21
\* The promise the caller's request returned has settled.
RequestSettled(c) == callers[c].pc # "idle" /\ Settled(callers[c].promise)

\* The caller has left its await.
RequestCompleted(c) == callers[c].pc \in {"done", "abandoned"}

\* What the cache holds for the caller's request.
CachedOutcome(c) ==
  Outcome(computedCache[CacheKey(callers[c].artifact, callers[c].dependencies)])

\* C21: with the acyclic declared graph (EntityClassification needs
\* NetworkRecords, which needs nothing) and producers that eventually return or
\* throw, every request eventually completes, with the cached result or the
\* cached failure; the promise of every request settles whether or not its
\* requesters went on waiting, so a caller that joined a computation whose
\* original requester gave up is not left on the pending placeholder.
C21_EveryRequestCompletes ==
  /\ \A c \in Callers : (callers[c].pc = "awaiting") ~> RequestCompleted(c)
  /\ \A c \in Callers : (callers[c].pc # "idle") ~> RequestSettled(c)
  /\ [](\A c \in Callers :
          callers[c].pc = "done" =>
            /\ callers[c].outcome.state \in {"fulfilled", "rejected"}
            /\ callers[c].outcome = CachedOutcome(c))

C21_Witness ==
  \E c \in Callers : \E d \in Callers :
    /\ callers[d].pc = "abandoned"
    /\ callers[d].joined = "started"
    /\ callers[c].pc = "done"
    /\ callers[c].joined = "pending"
    /\ callers[c].artifact = "EntityClassification"
    /\ callers[c].promise = callers[d].promise

\* ------------------------------------------------------------------ C23
\* ttfb + loadDelay + loadTime + renderDelay, as a real number.
PhaseSum ==
  phases.timings.ttfb + phases.timings.loadDelay + phases.timings.loadTime
    + phases.timings.renderDelay

\* The differences the taken branch forms, before rounding.
Differences ==
  IF Truthy(phases.loadStart) /\ Truthy(phases.loadEnd)
  THEN <<phases.loadStart.value - phases.ttfb,
         phases.loadEnd.value - phases.loadStart.value,
         phases.metricLcp - phases.loadEnd.value>>
  ELSE <<phases.metricLcp - phases.ttfb>>

\* The value is one of the format.
Representable(x) == Abs(x) % Ulp(x) = 0

\* No subtraction of the taken branch was rounded.
SubtractionsExact == \A k \in DOMAIN Differences : Representable(Differences[k])

\* Twice the largest rounding error the taken branch can have made: a rounded
\* difference lies within half an ulp of the exact one.
TwiceErrorBound ==
  IF Truthy(phases.loadStart) /\ Truthy(phases.loadEnd)
  THEN Ulp(phases.timings.loadDelay) + Ulp(phases.timings.loadTime)
         + Ulp(phases.timings.renderDelay)
  ELSE Ulp(phases.timings.renderDelay)

NoLoadPhases ==
  (~Truthy(phases.loadStart) \/ ~Truthy(phases.loadEnd)) =>
    /\ phases.timings.loadDelay = 0
    /\ phases.timings.loadTime = 0

\* C23 as stated: for every LCP timing, ttfb, loadStart and loadEnd the four
\* phase timings sum to the LCP timing, and without both loadStart and loadEnd
\* loadDelay and loadTime are 0.
C23_PhasesPartitionExactly ==
  phases.pc = "done" => (PhaseSum = phases.metricLcp /\ NoLoadPhases)

\* C23: the four phase timings sum to the LCP timing whenever no subtraction of
\* the taken branch is rounded; otherwise the sum is off by at most the rounding
\* errors of the differences (half an ulp each); and when loadStart or loadEnd
\* is missing or zero, loadDelay and loadTime are 0 and renderDelay is the
\* rounded metricLcp - ttfb.
C23_PhasesPartition ==
  phases.pc = "done" =>
    /\ SubtractionsExact => PhaseSum = phases.metricLcp
    /\ 2 * Abs(PhaseSum - phases.metricLcp) <= TwiceErrorBound
    /\ phases.timings.ttfb = phases.ttfb
    /\ NoLoadPhases
    /\ (~Truthy(phases.loadStart) \/ ~Truthy(phases.loadEnd)) =>
         phases.timings.renderDelay = Round(phases.metricLcp - phases.ttfb)

C23_Witness ==
  /\ phases.pc = "done"
  /\ Truthy(phases.loadStart) /\ Truthy(phases.loadEnd)
  /\ phases.ttfb < phases.loadStart.value
  /\ phases.loadStart.value < phases.loadEnd.value
  /\ phases.loadEnd.value < phases.metricLcp
  /\ SubtractionsExact
  /\ phases.timings.renderDelay # Round(phases.metricLcp - phases.ttfb)
  /\ PhaseSum = phases.metricLcp

\* ------------------------------------------------------------------ C24
\* The code and its hyphen-delimited prefixes.
LangPrefixes(lang) == {SubSeq(lang, 1, n) : n \in 1..Len(lang)}

\* The non-descriptive set of a language code, if the table has one.
NonDescriptiveSetOf(lang) ==
  IF Len(lang) = 1 /\ lang[1] \in DOMAIN nonDescriptiveLinkTexts
  THEN nonDescriptiveLinkTexts[lang[1]]
  ELSE {}

\* The links the claim says are to be reported.
ShouldFail(link) ==
  /\ Followed(link)
  /\ ~Excluded(link, linkText.artifacts.URL.finalDisplayedUrl)
  /\ SearchTerm(link).word # ""
  /\ \E lang \in LangPrefixes(link.textLang) :
       SearchTerm(link).word \in NonDescriptiveSetOf(lang)

AuditedLinks ==
  {linkText.artifacts.AnchorElements[n] :
     n \in 1..Len(linkText.artifacts.AnchorElements)}

Reported(link) ==
  /\ linkText.pc = "done"
  /\ \E n \in 1..Len(linkText.failingLinks) : linkText.failingLinks[n] = link

ScoreIsOne == linkText.pc = "done" /\ linkText.product.score = 1

\* C24: the walk over the language code ends for every textLang, and once the
\* audit has ended a followed link whose href is not javascript:, mailto: or
\* the page is reported as failing iff its trimmed lower-cased text is
\* non-empty and in the non-descriptive set of textLang or of one of its
\* hyphen-delimited prefixes; the score is 1 exactly when no link fails.
C24_FailingIffNonDescriptive ==
  linkText.pc \in {"done", "thrown"} =>
    /\ \A link \in AuditedLinks : Reported(link) <=> ShouldFail(link)
    /\ ScoreIsOne <=> (\A link \in AuditedLinks : ~ShouldFail(link))

\* A walk of the page passes a key that the table inherits.
WalksInheritedKey ==
  \E link \in AuditedLinks :
    /\ Followed(link)
    /\ ~Excluded(link, linkText.artifacts.URL.finalDisplayedUrl)
    /\ SearchTerm(link).word # ""
    /\ \E lang \in LangPrefixes(link.textLang) :
         Len(lang) = 1 /\ lang[1] \in ObjectPrototypeKeys

\* What does hold: the audit ends with a product unless a walk passes an
\* inherited key, and then the claim's equivalences hold.
C24_FailingIffNonDescriptiveOwnKeys ==
  /\ linkText.pc = "thrown" => WalksInheritedKey
  /\ linkText.pc = "done" =>
       /\ \A link \in AuditedLinks : Reported(link) <=> ShouldFail(link)
       /\ ScoreIsOne <=> (\A link \in AuditedLinks : ~ShouldFail(link))

\* Each pass of the walk strictly shortens the code or leaves the walk.
C24_WalkShortens ==
  [][(linkText.pc = "walk" /\ linkText'.pc = "walk") =>
       \/ Len(linkText'.lang) < Len(linkText.lang)
       \/ (Len(linkText.lang) = 1 /\ linkText'.lang = <<"">>
             /\ linkText.lang # <<"">>)]_vars

\* ------------------------------------------------------------------ C25
\* Positions in sent of the commands of a method.
SentAt(method) ==
  {k \in 1..Len(anchorElements.sent) : anchorElements.sent[k].method = method}

Answered(method) ==
  \E k \in 1..Len(anchorElements.received) : anchorElements.received[k].method = method

\* A lookup has completed when its promise has settled.
LookupCompleted(n) == anchorElements.lookups[n].pc \in {"done", "failed"}

\* C25: getArtifact sends DOM.enable, then DOM.getDocument, then the anchors'
\* DOMDebugger.getEventListeners commands in any order, then DOM.disable. No
\* getEventListeners command is sent before DOM.getDocument has been answered;
\* DOM.disable is sent only once every anchor's lookup has completed; and the
\* result has one entry per collected anchor in the original order, with
\* listeners = [] for an anchor whose node path has no object id.
C25_CommandOrder ==
  anchorElements.pc # "idle" =>
    /\ SentAt("DOM.enable") \subseteq {1}
    /\ SentAt("DOM.getDocument") \subseteq {2}
    /\ SentAt("DOM.getDocument") # {} => Answered("DOM.enable")
    /\ SentAt("DOMDebugger.getEventListeners") # {} => Answered("DOM.getDocument")
    /\ \A k \in SentAt("DOMDebugger.getEventListeners") : k > 2
    /\ \A d \in SentAt("DOM.disable") :
         /\ d = Len(anchorElements.sent)
         /\ Len(anchorElements.lookups) = Len(anchorElements.anchors)
         /\ \A n \in Lookups : LookupCompleted(n)
    /\ anchorElements.pc = "returned" =>
         /\ SentAt("DOM.disable") # {}
         /\ anchorElements.anchors = anchorElements.page
         /\ Len(anchorElements.result) = Len(anchorElements.anchors)
         /\ \A n \in 1..Len(anchorElements.anchors) :
              /\ anchorElements.result[n].text = anchorElements.anchors[n].text
              /\ anchorElements.result[n].node = anchorElements.anchors[n].node
              /\ anchorElements.lookups[n].objectId = None =>
                   anchorElements.result[n].listeners = <<>>
         /\ Cardinality(SentAt("DOMDebugger.getEventListeners"))
              = Cardinality({n \in Lookups : anchorElements.lookups[n].objectId # None})

\* Three anchors: the first has no object id, and the third's command went out
\* before the second's.
C25_Witness ==
  /\ anchorElements.pc = "returned"
  /\ Len(anchorElements.anchors) = 3
  /\ anchorElements.anchors[2] # anchorElements.anchors[3]
  /\ anchorElements.lookups[1].objectId = None
  /\ anchorElements.result[1].listeners = <<>>
  /\ anchorElements.result[2].listeners = <<>>
  /\ anchorElements.result[3].listeners = <<[type |-> "click"]>>
  /\ anchorElements.sent =
       <<Command("DOM.enable"), Command("DOM.getDocument"),
         GetEventListenersCommand(ObjectIdOf(anchorElements.anchors[3].node.devtoolsNodePath)),
         GetEventListenersCommand(ObjectIdOf(anchorElements.anchors[2].node.devtoolsNodePath)),
         Command("DOM.disable")>>

\* ------------------------------------------------------------------ C26
\* Positions in events of a step of a fixture.
EventsAt(step, fixture) ==
  {e \in 1..Len(collect.events) : collect.events[e] = Event(step, fixture)}

Calls(step) == Cardinality(EventsAt(step, 0))

FixtureSteps == {"newPage", "runUserFlow", "verify", "saveTrace", "saveDevtoolsLog"}

\* A fixture's files are written only after its verify has returned.
SavedAfterVerify ==
  \A e \in 1..Len(collect.events) :
    collect.events[e].step \in {"saveTrace", "saveDevtoolsLog"} =>
      \E v \in 1..(e - 1) : collect.events[v] = Event("verify", collect.events[e].fixture)

\* Fixtures are taken one after another in list order: the steps of a fixture
\* are together, a later fixture's steps come after an earlier one's, and a
\* fixture is begun only when the one before it has gone through all its steps.
InListOrder ==
  /\ \A e \in 1..Len(collect.events) : \A f \in 1..Len(collect.events) :
       (e < f /\ collect.events[e].step \in FixtureSteps
              /\ collect.events[f].step \in FixtureSteps) =>
         collect.events[e].fixture <= collect.events[f].fixture
  /\ \A n \in 2..Len(collect.collectMetas) :
       EventsAt("newPage", n) # {} =>
         /\ EventsAt("verify", n - 1) # {}
         /\ collect.collectMetas[n - 1].saveTrace => EventsAt("saveTrace", n - 1) # {}
         /\ collect.collectMetas[n - 1].saveDevtoolsLog =>
              EventsAt("saveDevtoolsLog", n - 1) # {}
  /\ \A e \in 1..Len(collect.events) :
       collect.events[e].step \in FixtureSteps =>
         Cardinality(EventsAt(collect.events[e].step, collect.events[e].fixture)) = 1

\* The script has ended after it had entered the try block.
LeftTheLoop == collect.pc \in {"exited", "failed"} /\ collect.server # "none"

\* C26: a fixture's trace and devtools log are saved only after its verify has
\* returned without throwing; fixtures are processed strictly one after
\* another in list order; and on every path out of the loop, whether all
\* fixtures succeeded or a step threw, the static server and the browser are
\* both closed exactly once.
C26_SavedAfterVerifyAndClosed ==
  /\ SavedAfterVerify
  /\ InListOrder
  /\ LeftTheLoop =>
       /\ Calls("server.close") = 1 /\ collect.server = "closed"
       /\ Calls("browser.close") = 1 /\ collect.browser = "closed"

\* What does hold: the order of the saves and of the fixtures; server.close()
\* is called exactly once on every path out of the loop; browser.close() is
\* called exactly once after server.close() has resolved, and not at all
\* after it has rejected.
C26_SavedAfterVerifyServerCloseCalled ==
  /\ SavedAfterVerify
  /\ InListOrder
  /\ LeftTheLoop =>
       /\ Calls("server.close") = 1
       /\ Calls("browser.close") = IF collect.server = "closed" THEN 1 ELSE 0
       /\ (collect.pc = "exited" => collect.server = "closed" /\ collect.browser = "closed")
  /\ collect.pc \in {"loop", "runUserFlow", "verify", "saveTrace", "saveDevtoolsLog", "next"} =>
       Calls("server.close") = 0 /\ Calls("browser.close") = 0

\* ============================================== claims on computed artifacts
Requested(c) == callers[c].pc # "idle"

Done(c) == callers[c].pc = "done"

\* The inputs as the artifact's producer sees them.
Fingerprint(artifact, dependencies) == Pick(dependencies, DeclaredKeys(artifact))

FingerprintOf(c) == Fingerprint(callers[c].artifact, callers[c].dependencies)

SameRequest(c1, c2) ==
  /\ callers[c1].artifact = callers[c2].artifact
  /\ FingerprintOf(c1) = FingerprintOf(c2)

\* The call counter of the spec's test: invocations of an artifact's producer
\* with the given inputs, under whatever key their promises are filed.
ProducerRuns(artifact, fingerprint) ==
  Cardinality({ref \in LivePromises :
                 /\ Promise(ref).artifact = artifact
                 /\ Promise(ref).dependencies = fingerprint})

\* ------------------------------------------------------------------ C2
\* C2: callers of one artifact with fingerprint-equal inputs, in any
\* interleaving, share one producer invocation: they hold the same promise, the
\* producer has run exactly once, and those that have resumed received the same
\* result.
C2_SingleFlight ==
  /\ \A c \in Callers :
       Requested(c) => ProducerRuns(callers[c].artifact, FingerprintOf(c)) = 1
  /\ \A c1 \in Callers : \A c2 \in Callers :
       (Requested(c1) /\ Requested(c2) /\ SameRequest(c1, c2)) =>
         /\ callers[c1].promise = callers[c2].promise
         /\ (Done(c1) /\ Done(c2)) => callers[c1].outcome = callers[c2].outcome

\* Three requests for one EntityClassification key, with inputs that are equal
\* only in the declared dependencies, all issued before the producer finished.
C2_Witness ==
  /\ \A c \in Callers : Done(c) /\ callers[c].artifact = "EntityClassification"
  /\ \A c \in Callers : SameRequest(c, 1)
  /\ callers[1].dependencies # callers[2].dependencies
  /\ callers[1].joined = "started"
  /\ \A c \in Callers \ {1} : callers[c].joined = "pending"
  /\ callers[1].outcome.state = "fulfilled"

\* ------------------------------------------------------------------ C3
Cached(key) == Promise(computedCache[key])

\* The value was returned, or the error thrown, by the producer of the artifact
\* for these inputs.
OwnOutcome(outcome, artifact, fingerprint) ==
  /\ outcome.value.dependencies = fingerprint
  /\ outcome.state = "fulfilled" => outcome.value.artifact = artifact
  /\ outcome.state = "rejected" => outcome.value.error = artifact

\* C3: a failure is stored under its key: the producer of a key whose promise
\* was rejected has run once and is not run again, and every caller of the key
\* that has resumed received that failure. Other keys are unaffected: what a
\* caller receives is the value or the error of the producer of its own key,
\* or, for EntityClassification, the error of the NetworkRecords producer for
\* its own log.
C3_FailureIsTerminal ==
  /\ \A key \in DOMAIN computedCache :
       Cached(key).state = "rejected" =>
         /\ Len(promises[key]) = 1
         /\ ProducerRuns(key.artifact, key.dependencies) = 1
  /\ \A c \in Callers :
       (Done(c) /\ Cached(CacheKey(callers[c].artifact, callers[c].dependencies)).state
                     = "rejected") =>
         /\ callers[c].outcome.state = "rejected"
         /\ callers[c].outcome.value =
              Cached(CacheKey(callers[c].artifact, callers[c].dependencies)).value
  /\ \A c \in Callers :
       Done(c) =>
         \/ OwnOutcome(callers[c].outcome, callers[c].artifact, FingerprintOf(c))
         \/ /\ callers[c].artifact = "EntityClassification"
            /\ callers[c].outcome.state = "rejected"
            /\ OwnOutcome(callers[c].outcome, "NetworkRecords",
                          [devtoolsLog |-> callers[c].dependencies.devtoolsLog])

\* The producer of NetworkRecords(logA) failed; a caller that asked after the
\* failure got it replayed; NetworkRecords(logB), asked for after the failure,
\* succeeded.
C3_Witness ==
  /\ \A c \in Callers : Done(c) /\ callers[c].artifact = "NetworkRecords"
  /\ callers[1].dependencies.devtoolsLog = "logA"
  /\ callers[2].dependencies.devtoolsLog = "logA"
  /\ callers[3].dependencies.devtoolsLog = "logB"
  /\ callers[1].joined = "started"
  /\ callers[2].joined = "settled"
  /\ callers[1].outcome.state = "rejected"
  /\ callers[2].outcome = callers[1].outcome
  /\ callers[3].outcome.state = "fulfilled"

\* ------------------------------------------------------------------ C4
Logs == {d.devtoolsLog : d \in DataSet}

NetworkRecordsWanted(log) ==
  \/ \E c \in Callers :
       /\ Requested(c)
       /\ callers[c].dependencies.devtoolsLog = log
  \/ \E ref \in LivePromises :
       /\ Promise(ref).artifact = "EntityClassification"
       /\ Promise(ref).dependencies.devtoolsLog = log

\* C4: however the consumers of one run are scheduled, the NetworkRecords
\* producer has run exactly once for a devtools log that a consumer (a direct
\* caller, or EntityClassification.compute_) has requested records for, and all
\* of them hold that one promise.
C4_NetworkRecordsOnce ==
  \A log \in Logs :
    NetworkRecordsWanted(log) =>
      /\ ProducerRuns("NetworkRecords", [devtoolsLog |-> log]) = 1
      /\ \A ref \in LivePromises :
           (/\ Promise(ref).artifact = "EntityClassification"
            /\ Promise(ref).dependencies.devtoolsLog = log) =>
             Promise(ref).awaiting =
               computedCache[CacheKey("NetworkRecords", [devtoolsLog |-> log])]
      /\ \A c \in Callers :
           (/\ Requested(c)
            /\ callers[c].artifact = "NetworkRecords"
            /\ callers[c].dependencies.devtoolsLog = log) =>
             callers[c].promise =
               computedCache[CacheKey("NetworkRecords", [devtoolsLog |-> log])]

\* Two classifications (different URL artifacts) and a direct caller share the
\* records of logA; the direct caller came first.
C4_Witness ==
  /\ callers[1].pc = "done" /\ callers[1].artifact = "NetworkRecords"
  /\ callers[1].dependencies.devtoolsLog = "logA"
  /\ callers[2].pc = "done" /\ callers[2].artifact = "EntityClassification"
  /\ callers[3].pc = "done" /\ callers[3].artifact = "EntityClassification"
  /\ callers[2].dependencies.devtoolsLog = "logA"
  /\ callers[3].dependencies.devtoolsLog = "logA"
  /\ callers[2].dependencies.URL # callers[3].dependencies.URL
  /\ callers[2].joined = "started" /\ callers[3].joined = "started"
  /\ ProducerRuns("NetworkRecords", [devtoolsLog |-> "logA"]) = 1

\* ------------------------------------------------------------------ C5
\* C5: the artifact is part of the cache key. Every caller receives what the
\* producer of its own artifact made of its own inputs, that producer has run
\* once, two callers that differ in artifact or in fingerprint hold different
\* promises, and makePhaseTable's metricLcp comes from LargestContentfulPaint
\* and its breakdown from LCPBreakdown although both were requested with the
\* same metricComputationData.
C5_KeyHasArtifactIdentity ==
  /\ \A c \in Callers :
       Requested(c) =>
         /\ ProducerRuns(callers[c].artifact, FingerprintOf(c)) = 1
         /\ Done(c) => OwnOutcome(callers[c].outcome, callers[c].artifact,
                                   FingerprintOf(c))
  /\ \A c1 \in Callers : \A c2 \in Callers :
       (Requested(c1) /\ Requested(c2) /\ ~SameRequest(c1, c2)) =>
         callers[c1].promise # callers[c2].promise
  /\ phaseTable.pc \in {"awaitBreakdown", "done"} =>
       /\ phaseTable.metricLcp.artifact = "LargestContentfulPaint"
       /\ phaseTable.metricLcp.dependencies = phaseTable.metricComputationData
       /\ ProducerRuns("LargestContentfulPaint", phaseTable.metricComputationData) = 1
       /\ ProducerRuns("LCPBreakdown", phaseTable.metricComputationData) = 1
  /\ phaseTable.pc = "done" =>
       /\ phaseTable.breakdown.artifact = "LCPBreakdown"
       /\ phaseTable.breakdown.dependencies = phaseTable.metricComputationData

\* makePhaseTable has both results; a caller shared its LargestContentfulPaint,
\* another got the LCPBreakdown of the same inputs, a third the
\* LargestContentfulPaint of another trace.
C5_Witness ==
  /\ phaseTable.pc = "done"
  /\ \A c \in Callers : Done(c) /\ callers[c].outcome.state = "fulfilled"
  /\ callers[1].artifact = "LargestContentfulPaint"
  /\ callers[1].outcome.value = phaseTable.metricLcp
  /\ callers[2].artifact = "LCPBreakdown"
  /\ callers[2].outcome.value = phaseTable.breakdown
  /\ callers[3].artifact = "LargestContentfulPaint"
  /\ callers[3].dependencies.trace = "traceB"
  /\ callers[3].outcome.value # callers[1].outcome.value

\* ------------------------------------------------------------------ C6
RecordsOf(dependencies) ==
  Cached(CacheKey("NetworkRecords", [devtoolsLog |-> dependencies.devtoolsLog]))

\* C6: when NetworkRecords has failed for a log, every EntityClassification
\* promise for that log that has settled is rejected with that very failure,
\* every caller that has resumed received it, and both producers have run
\* once.
C6_DependencyFailurePropagates ==
  /\ \A ref \in LivePromises :
       (/\ Promise(ref).artifact = "EntityClassification"
        /\ RecordsOf(Promise(ref).dependencies).state = "rejected") =>
         /\ Promise(ref).state # "fulfilled"
         /\ Promise(ref).state = "rejected" =>
              Promise(ref).value = RecordsOf(Promise(ref).dependencies).value
         /\ ProducerRuns("EntityClassification", Promise(ref).dependencies) = 1
         /\ ProducerRuns("NetworkRecords",
                         [devtoolsLog |-> Promise(ref).dependencies.devtoolsLog]) = 1
  /\ \A c \in Callers :
       (/\ Done(c)
        /\ callers[c].artifact = "EntityClassification"
        /\ RecordsOf(callers[c].dependencies).state = "rejected") =>
         callers[c].outcome =
           [state |-> "rejected", value |-> RecordsOf(callers[c].dependencies).value]

\* NetworkRecords(logA) failed; the classification was requested when nothing
\* was cached, again while it was pending, and again after it had failed.
C6_Witness ==
  /\ \A c \in Callers : Done(c) /\ callers[c].artifact = "EntityClassification"
  /\ \A c \in Callers : SameRequest(c, 1)
  /\ callers[1].joined = "started"
  /\ callers[2].joined = "pending"
  /\ callers[3].joined = "settled"
  /\ \A c \in Callers :
       /\ callers[c].outcome.state = "rejected"
       /\ callers[c].outcome.value.error = "NetworkRecords"

====
